---- MODULE Spec2Model ----
(***************************************************************************)
(* A model of simple_search: the inverted index kept by AbstractIndex      *)
(* (base_models.py), its per-term global counters (GlobalOccuranceCount),  *)
(* the deferred task queue it schedules its work on, and search.           *)
(*                                                                         *)
(* Text is a sequence of one-character strings, so that normalisation,     *)
(* tokenisation, stemming and Python's substring count str.count are       *)
(* computed character by character as the code computes them.              *)
(***************************************************************************)
EXTENDS Integers, Sequences, FiniteSets, Bags, TLC

\* ------------------------------------------------------------------ bounds
\* Number of indexable objects of the host model (SampleModel rows).
NumRecords == 2
\* Calls (index / unindex / update) concurrent callers make in one behaviour.
MaxCalls == 2
\* Calls made in one behaviour when indexing is deferred to the task queue.
MaxQueueCalls == 1
\* Calls the single caller of the sequential specification makes.
MaxSeqCalls == 3
\* Extra deliveries of one task the queue may make (at-least-once delivery).
MaxRedeliver == 1
\* Words of the texts that generate_terms is applied to.
MaxWords == 5
\* Candidates of a ranking, matched terms of a candidate, count of a term.
MaxCandidates == 2
MaxMatched == 2
MaxCount == 2
\* Entries of a ranked list that is paged, entries of a page, pages.
MaxResults == 25
MaxPerPage == 10
MaxPage == 3
\* Tokens of a search string that is parsed.
MaxPieces == 2
\* Write conflicts the store raises, calls made under conflicts.
MaxConflicts == 2
MaxRetryCalls == 1
MaxLookups == 3
MaxRawWords == 2

\* --------------------------------------------------------------- constants
\* for j in xrange(1, 5): a term holds at most 4 adjacent words.
MaxTermWords == 4
\* NLTK's Porter stemmer returns words of at most two letters unchanged.
StemMinLen == 3

\* ---------------------------------------------------------------- strings
None == <<"<None>">>

Min(a, b) == IF a < b THEN a ELSE b

\* unicode.lower(), on the alphabet of the model.
Lower(c) ==
  CASE c = "X" -> "x"
    [] c = "B" -> "b"
    [] c = "A" -> "a"
    [] c = "S" -> "s"
    [] OTHER -> c

\* whitespace_characters of normalize (the ASCII ones).
WhitespaceCharacters == {"|", "/", "-", "~", ",", ".", ";", ":", "!", "?"}

\* AbstractIndex.normalize: punctuation to spaces, then lower case.
normalize(s) ==
  [i \in 1..Len(s) |-> Lower(IF s[i] \in WhitespaceCharacters THEN " " ELSE s[i])]

\* nltk.word_tokenize, as the whitespace split of its contract: the maximal
\* runs of non-space characters, in order.
RECURSIVE TokenizeFrom(_, _, _)
TokenizeFrom(s, i, word) ==
  IF i > Len(s)
  THEN IF word = <<>> THEN <<>> ELSE <<word>>
  ELSE IF s[i] = " "
       THEN (IF word = <<>> THEN <<>> ELSE <<word>>) \o TokenizeFrom(s, i + 1, <<>>)
       ELSE TokenizeFrom(s, i + 1, Append(word, s[i]))

word_tokenize(s) == TokenizeFrom(s, 1, <<>>)

\* nltk.corpus.stopwords.words('english'), the ones over the alphabet.
Stopwords == {<<"a">>, <<"s">>, <<"a", "s">>}

\* PorterStemmer.stem, step 1a on the alphabet of the model: a final "s"
\* (not "ss") is dropped from a word of three letters or more.
Stem(w) ==
  IF Len(w) < StemMinLen THEN w
  ELSE IF w[Len(w)] = "s" /\ w[Len(w) - 1] # "s" THEN SubSeq(w, 1, Len(w) - 1)
  ELSE w

\* token.strip(':"')
RECURSIVE StripLeft(_, _)
StripLeft(w, chars) ==
  IF w # <<>> /\ w[1] \in chars THEN StripLeft(Tail(w), chars) ELSE w

RECURSIVE StripRight(_, _)
StripRight(w, chars) ==
  IF w # <<>> /\ w[Len(w)] \in chars
  THEN StripRight(SubSeq(w, 1, Len(w) - 1), chars) ELSE w

Strip(w, chars) == StripRight(StripLeft(w, chars), chars)

\* token.startswith("__")
StartsWithDunder(w) == Len(w) >= 2 /\ w[1] = "_" /\ w[2] = "_"

\* One token of canonicalize's loop: <<>> when the token is dropped.
CanonToken(token, remove_stopwords, do_stemming) ==
  IF remove_stopwords /\ token \in Stopwords THEN <<>>
  ELSE LET t1 == IF do_stemming THEN Stem(token) ELSE token
       IN IF do_stemming /\ Strip(t1, {":", "\""}) = <<>> THEN <<>>
          ELSE LET t2 == IF StartsWithDunder(t1) THEN StripLeft(t1, {"_"}) ELSE t1
               IN <<[i \in 1..Len(t2) |-> Lower(t2[i])]>>

RECURSIVE CanonTokens(_, _, _)
CanonTokens(tokens, remove_stopwords, do_stemming) ==
  IF tokens = <<>> THEN <<>>
  ELSE CanonToken(Head(tokens), remove_stopwords, do_stemming)
         \o CanonTokens(Tail(tokens), remove_stopwords, do_stemming)

\* AbstractIndex.canonicalize
canonicalize(raw, remove_stopwords, do_stemming) ==
  CanonTokens(word_tokenize(normalize(raw)), remove_stopwords, do_stemming)

\* u" ".join(words)
RECURSIVE Join(_)
Join(words) ==
  IF words = <<>> THEN <<>>
  ELSE IF Len(words) = 1 THEN words[1]
  ELSE words[1] \o <<" ">> \o Join(Tail(words))

\* unicode.count(sub): the non-overlapping occurrences, scanning left to right.
RECURSIVE CountFrom(_, _, _)
CountFrom(text, sub, i) ==
  IF i + Len(sub) - 1 > Len(text) THEN 0
  ELSE IF SubSeq(text, i, i + Len(sub) - 1) = sub
       THEN 1 + CountFrom(text, sub, i + Len(sub))
       ELSE CountFrom(text, sub, i + 1)

Count(text, sub) == CountFrom(text, sub, 1)

\* The inner loop without its upper limit: every window that starts at i.
TermsAtUnbounded(stems, i) ==
  LET all == [j \in 1..(Len(stems) - i + 1) |-> Join(SubSeq(stems, i, i + j - 1))]
  IN SelectSeq(all, LAMBDA t : Strip(t, {" "}) # <<>>)

\* The inner loop of _generate_terms at start index i: the windows of
\* j = 1..4 words, stopping at the first window that runs past the end.
TermsAt(stems, i) ==
  LET n == Min(MaxTermWords, Len(stems) - i + 1)
      all == [j \in 1..n |-> Join(SubSeq(stems, i, i + j - 1))]
  IN SelectSeq(all, LAMBDA t : Strip(t, {" "}) # <<>>)

RECURSIVE TermsFrom(_, _)
TermsFrom(stems, i) ==
  IF i > Len(stems) THEN <<>> ELSE TermsAt(stems, i) \o TermsFrom(stems, i + 1)

\* _generate_terms that keeps the stopwords of the text.
generate_terms_stopwords(text) ==
  IF text = None THEN <<>> ELSE TermsFrom(canonicalize(text, FALSE, TRUE), 1)

\* AbstractIndex._generate_terms
generate_terms(text) ==
  IF text = None THEN <<>> ELSE TermsFrom(canonicalize(text, TRUE, TRUE), 1)

\* ------------------------------------------------------------ host objects
\* The primary keys of the host model's rows (SampleModel in tests.py).
Records == 1..NumRecords

FieldNames == {"field1", "field2"}

\* fields_to_index as the callers pass it.
FieldLists == {<<"field1">>, <<"field1", "field2">>}

StrValue(t) == [kind |-> "str", val |-> t]
ListValue(ts) == [kind |-> "list", val |-> ts]
NoneValue == [kind |-> "none", val |-> <<>>]

\* The field contents the host objects are drawn from.
Contents ==
  { [field1 |-> StrValue(<<"X">>), field2 |-> NoneValue],
    [field1 |-> StrValue(<<"x">>), field2 |-> StrValue(<<"b">>)],
    [field1 |-> StrValue(<<"x", " ", "x">>), field2 |-> NoneValue],
    [field1 |-> ListValue(<< <<"x">>, <<"x", " ", "b">> >>), field2 |-> NoneValue],
    [field1 |-> StrValue(<<"x", "b", "s", ",", "x">>), field2 |-> StrValue(<<"a", " ", "x">>)] }

\* The contents of the concurrent specification: no term is generated twice
\* from one of them, within a field or across its text values.
PlainContents ==
  { [field1 |-> StrValue(<<"X">>), field2 |-> NoneValue],
    [field1 |-> StrValue(<<"x">>), field2 |-> StrValue(<<"b">>)] }

\* get_field_data: the list of values of a field (_get_dict_data and the
\* plain-attribute and iterable cases of _get_model_data).
get_field_data(field, obj) ==
  LET v == obj.data[field]
  IN IF v.kind = "list" THEN v.val
     ELSE IF v.kind = "none" THEN <<None>>
     ELSE <<v.val>>

\* --------------------------------------------------------------- the store
VARIABLES
  content,     \* host rows: pk -> field contents
  index,       \* the IndexRecord rows
  goc,         \* the GlobalOccuranceCount rows: term -> count
  queue,       \* the deferred task queue, a bag of tasks
  pc,          \* per worker: the statement it is about to run
  frame,       \* per worker: the locals of the unit it runs
  calls,       \* calls made so far
  redelivered, \* duplicate deliveries made so far
  lastOp,      \* per host row: the last call completed on it
  lastCall,    \* the call completed last
  prev,        \* the call completed before it and the store it left
  args,        \* the arguments of a call of a function without side effects
  result,      \* what that call returned
  env          \* the environment: write conflicts raised so far, cancellation

vars == <<content, index, goc, queue, pc, frame, calls, redelivered,
          lastOp, lastCall, prev, args, result, env>>

Procs == 1..2

GocPut(g, t, n) == [k \in (DOMAIN g) \cup {t} |-> IF k = t THEN n ELSE g[k]]
GocDel(g, t) == [k \in (DOMAIN g) \ {t} |-> g[k]]
NoGoc == [k \in {} |-> 0]

\* IndexRecord rows without their primary keys.
Rows(idx) ==
  { [iexact |-> r.iexact, field |-> r.field, owner |-> r.owner,
     occurances |-> r.occurances] : r \in idx }

\* The store, and what a reader sees of it: the live IndexRecords (without
\* their keys) and the counters.
Store == [index |-> index, goc |-> goc]
View(db) == [index |-> Rows(db.index), goc |-> db.goc]

\* sum(index_class.objects.filter(iexact=term).values_list('occurances'))
RECURSIVE SumRows(_)
SumRows(S) ==
  IF S = {} THEN 0
  ELSE LET r == CHOOSE r \in S : TRUE IN r.occurances + SumRows(S \ {r})

SumOccurances(idx, term) == SumRows({r \in idx : r.iexact = term})

\* ------------------------------------------------------------------- units
NoData == [field1 |-> NoneValue, field2 |-> NoneValue]

NoUnit ==
  [kind |-> "none", obj |-> [pk |-> 0, data |-> NoData], fields |-> <<>>,
   defer_index |-> FALSE, in_txn |-> FALSE, field |-> "", text |-> <<>>,
   term |-> <<>>]

\* in_txn records db.is_in_transaction() as index found it.
ReindexUnit(obj, fields, defer_index, in_txn) ==
  [NoUnit EXCEPT !.kind = "reindex", !.obj = obj, !.fields = fields,
                 !.defer_index = defer_index, !.in_txn = in_txn]

UnindexUnit(obj) == [NoUnit EXCEPT !.kind = "unindex", !.obj = obj]

IndexTermUnit(obj, field, text, term) ==
  [NoUnit EXCEPT !.kind = "index_term", !.obj = obj, !.field = field,
                 !.text = text, !.term = term]

UpdateUnit(term) == [NoUnit EXCEPT !.kind = "update", !.term = term]

NoRecord == [pk |-> 0, iexact |-> <<>>, field |-> "", owner |-> 0, occurances |-> 0]

NoFrame ==
  [unit |-> NoUnit, records |-> <<>>, work |-> <<>>, counter |-> 0,
   last |-> NoRecord, unindexed |-> FALSE, task |-> FALSE]

Idle(p) == pc[p] = "idle"
\* Callers and workers are interchangeable: the first idle one acts.
Free(p) == Idle(p) /\ \A q \in Procs : q < p => ~Idle(q)
Quiescent == (\A p \in Procs : Idle(p)) /\ queue = EmptyBag

\* ------------------------------------------------------- storage operations
\* The rows of a queryset as a list, in primary-key order.
RECURSIVE ByPk(_)
ByPk(S) ==
  IF S = {} THEN <<>>
  ELSE LET r == CHOOSE r \in S : \A q \in S : r.pk <= q.pk
       IN <<r>> \o ByPk(S \ {r})

\* Index._get_records: the IndexRecords that reference the object.
get_records(idx, obj) == ByPk({r \in idx : r.owner = obj.pk})

\* A primary key no live row has and no loaded instance remembers.
FreshPk(idx, loaded) ==
  LET used == {r.pk : r \in idx} \cup {loaded[i].pk : i \in 1..Len(loaded)}
  IN CHOOSE n \in 1..(Cardinality(used) + 1) : n \notin used

\* The delete of the older models.py: count.count -= self.occurances,
\* whatever the count is.
DeleteGocUnchecked(g, record) ==
  IF record.iexact \notin DOMAIN g THEN g
  ELSE GocPut(g, record.iexact, g[record.iexact] - record.occurances)

\* The counters after the transaction of AbstractIndexRecord.delete: a
\* missing counter raises DoesNotExist and the transaction changes nothing.
DeleteGoc(g, record) ==
  IF record.iexact \notin DOMAIN g THEN g
  ELSE IF g[record.iexact] <= record.occurances THEN GocDel(g, record.iexact)
  ELSE GocPut(g, record.iexact, g[record.iexact] - record.occurances)

\* A delete that removes every IndexRecord of the record's term.
DeleteIndexByTerm(idx, g, record) ==
  IF record.iexact \notin DOMAIN g THEN idx
  ELSE {r \in idx : r.iexact # record.iexact}

\* A delete that updates the counter and leaves the IndexRecord.
DeleteIndexKeeps(idx, g, record) == idx

\* The IndexRecords after the transaction of AbstractIndexRecord.delete:
\* super().delete() is reached only when the counter was found.
DeleteIndex(idx, g, record) ==
  IF record.iexact \notin DOMAIN g THEN idx ELSE {r \in idx : r.pk # record.pk}

\* The texts of the fields of the host objects.
ContentTexts ==
  UNION {{get_field_data(field, [pk |-> 0, data |-> data])[i] :
            i \in DOMAIN get_field_data(field, [pk |-> 0, data |-> data])} :
           data \in Contents, field \in FieldNames}

\* _generate_terms and text.count(term_) of these texts, computed once.
GeneratedTerms == [text \in ContentTexts |-> generate_terms(text)]

TermCounts ==
  [text \in ContentTexts |->
     [term \in {GeneratedTerms[text][i] : i \in DOMAIN GeneratedTerms[text]} |->
        Count(Join(canonicalize(text, TRUE, TRUE)), term)]]

\* term_count = text.count(term_), text the canonical words joined by spaces.
term_count(text, term) ==
  IF text \in ContentTexts /\ term \in DOMAIN TermCounts[text]
  THEN TermCounts[text][term]
  ELSE Count(Join(canonicalize(text, TRUE, TRUE)), term)

\* get_or_create_record: the row of (iexact, field, object) is created with
\* the given occurances unless one exists already.
get_or_create_record(idx, obj, field, iexact, occurances, pk) ==
  IF \E r \in idx : r.iexact = iexact /\ r.field = field /\ r.owner = obj.pk
  THEN idx
  ELSE idx \cup {[pk |-> pk, iexact |-> iexact, field |-> field, owner |-> obj.pk,
                  occurances |-> occurances]}

\* GlobalOccuranceCount.objects.get_or_create(pk=term_): a missing row is
\* created with the default count 0.
CounterGetOrCreate(g, term) == IF term \in DOMAIN g THEN g ELSE GocPut(g, term, 0)

\* A save that stores the counter as it was read, without the increment.
SaveCountUnchanged(counter, count) ==
  counter

\* counter.count += term_count
SaveCount(counter, count) ==
  counter + count

\* The loops of _do_index: one <<field, text, term>> per generated term, in
\* the order of the fields, of the field's texts and of the text's terms.
RECURSIVE TextsWork(_, _)
TextsWork(field, texts) ==
  IF texts = <<>> THEN <<>>
  ELSE LET terms == IF Head(texts) \in ContentTexts THEN GeneratedTerms[Head(texts)]
                    ELSE generate_terms(Head(texts))
       IN [i \in 1..Len(terms) |-> <<field, Head(texts), terms[i]>>]
            \o TextsWork(field, Tail(texts))

RECURSIVE DoIndexWork(_, _)
DoIndexWork(obj, fields) ==
  IF fields = <<>> THEN <<>>
  ELSE TextsWork(Head(fields), get_field_data(Head(fields), obj))
         \o DoIndexWork(obj, Tail(fields))

\* The tasks _do_index defers, one per entry of its loops.
RECURSIVE WorkBag(_, _)
WorkBag(obj, work) ==
  IF work = <<>> THEN EmptyBag
  ELSE SetToBag({IndexTermUnit(obj, Head(work)[1], Head(work)[2], Head(work)[3])})
         (+) WorkBag(obj, Tail(work))

\* -------------------------------------------------- the handlers, run alone
\* unindex's loop over the records it loaded.
RECURSIVE RunDeletes(_, _)
RunDeletes(db, records) ==
  IF records = <<>> THEN db
  ELSE RunDeletes([index |-> DeleteIndex(db.index, db.goc, Head(records)),
                   goc |-> DeleteGoc(db.goc, Head(records))], Tail(records))

\* AbstractIndex.unindex
RunUnindex(db, obj) == RunDeletes(db, get_records(db.index, obj))

\* AbstractIndex._index_term
RunIndexTerm(db, obj, field, text, term) ==
  LET count == term_count(text, term)
      idx == get_or_create_record(db.index, obj, field, term, count, FreshPk(db.index, <<>>))
      g == CounterGetOrCreate(db.goc, term)
  IN [index |-> idx, goc |-> GocPut(g, term, SaveCount(g[term], count))]

\* AbstractIndex._do_index with defer_index=False
RECURSIVE RunDoIndex(_, _, _)
RunDoIndex(db, obj, work) ==
  IF work = <<>> THEN db
  ELSE RunDoIndex(RunIndexTerm(db, obj, Head(work)[1], Head(work)[2], Head(work)[3]),
                  obj, Tail(work))

\* AbstractIndex.reindex with defer_index=False
RunReindex(db, obj, fields) ==
  RunDoIndex(RunUnindex(db, obj), obj, DoIndexWork(obj, fields))

\* --------------------------------------------------------------- searching
\* search(model_class, search_string, per_page=50, current_page=1, total_pages=10)
PerPage == 50
CurrentPage == 1
TotalPages == 10

SeqToSet(seq) == {seq[i] : i \in 1..Len(seq)}

\* The position of the first double quote of s at or after i, 0 without one.
RECURSIVE NextQuote(_, _)
NextQuote(s, i) ==
  IF i > Len(s) THEN 0 ELSE IF s[i] = "\"" THEN i ELSE NextQuote(s, i + 1)

\* re.findall(split_by_space, search_string): the maximal runs of characters
\* other than whitespace, comma and double quote and of quoted sections; a
\* double quote that is never closed belongs to no token.
RECURSIVE FindTokens(_, _, _)
FindTokens(s, i, token) ==
  LET found == IF token = <<>> THEN <<>> ELSE <<token>>
  IN IF i > Len(s) THEN found
     ELSE IF s[i] \in {" ", ","} THEN found \o FindTokens(s, i + 1, <<>>)
     ELSE IF s[i] # "\"" THEN FindTokens(s, i + 1, Append(token, s[i]))
     ELSE LET close == NextQuote(s, i + 1)
          IN IF close = 0 THEN found \o FindTokens(s, i + 1, <<>>)
             ELSE FindTokens(s, close + 1, token \o SubSeq(s, i, close))

\* The position of the first colon or double quote of a token, 0 without one.
RECURSIVE FirstDelimiter(_, _)
FirstDelimiter(token, i) ==
  IF i > Len(token) THEN 0
  ELSE IF token[i] \in {":", "\""} THEN i ELSE FirstDelimiter(token, i + 1)

\* re.findall(split_field, token): the field of a token that starts with
\* characters other than colon and quote, a colon and a character that is
\* not a space; None for any other token.
FieldOf(token) ==
  LET k == FirstDelimiter(token, 1)
  IN IF /\ k >= 2 /\ token[k] = ":"
        /\ k < Len(token) /\ token[k + 1] # " "
     THEN SubSeq(token, 1, k - 1) ELSE None

\* re.sub(pattern, '', token) for a pattern without special characters.
RECURSIVE RemoveAll(_, _, _)
RemoveAll(token, pattern, i) ==
  IF i > Len(token) THEN <<>>
  ELSE IF /\ i + Len(pattern) - 1 <= Len(token)
          /\ SubSeq(token, i, i + Len(pattern) - 1) = pattern
       THEN RemoveAll(token, pattern, i + Len(pattern))
       ELSE <<token[i]>> \o RemoveAll(token, pattern, i + 1)

\* get_field_content: the token without its field prefix and without the
\* double quotes around it.
get_field_content(token, field) ==
  LET t1 == IF field # None THEN RemoveAll(token, Append(field, ":"), 1) ELSE token
  IN IF t1 # <<>> /\ t1[1] = "\"" /\ t1[Len(t1)] = "\""
     THEN SubSeq(t1, 2, Len(t1) - 1) ELSE t1

\* The terms of one field: the canonical phrase of every token that holds
\* whitespace, then the canonical tokens of the others joined by spaces.
FieldTerms(tokens) ==
  LET phrases == SelectSeq(tokens, LAMBDA t : \E k \in 1..Len(t) : t[k] = " ")
      unquoted == SelectSeq(tokens, LAMBDA t : \A k \in 1..Len(t) : t[k] # " ")
  IN [k \in 1..Len(phrases) |-> Join(canonicalize(phrases[k], TRUE, TRUE))]
       \o canonicalize(Join(unquoted), TRUE, TRUE)

\* AbstractIndex.parse_terms: the dict {field: terms}, None for no field.
parse_terms(search_string) ==
  LET tokens == FindTokens(normalize(search_string), 1, <<>>)
      fields == [k \in 1..Len(tokens) |-> FieldOf(tokens[k])]
      contents == [k \in 1..Len(tokens) |-> get_field_content(tokens[k], fields[k])]
      Of(field) == LET at == SelectSeq([k \in 1..Len(tokens) |-> k],
                                       LAMBDA k : fields[k] = field)
                   IN [n \in 1..Len(at) |-> contents[at[n]]]
  IN [field \in SeqToSet(fields) |-> FieldTerms(Of(field))]

\* The terms search looks up: those parse_terms files under no field.
UnscopedTerms(search_string) ==
  LET terms == parse_terms(search_string)
  IN IF None \in DOMAIN terms THEN terms[None] ELSE <<>>

\* _get_matches that keeps a match whose term has no counter, with count 0.
get_matches_uncounted(idx, g, terms) ==
  [match \in {row \in idx : row.iexact \in SeqToSet(terms)} |->
     <<IF match.iexact \in DOMAIN g THEN g[match.iexact] ELSE 0>>]

\* _get_matches without the filter iexact__in=terms: every counted record.
get_matches_unfiltered(idx, g, terms) ==
  [match \in {row \in idx : row.iexact \in DOMAIN g} |-> <<g[match.iexact]>>]

\* _get_matches: obj_weights, keyed by the matching IndexRecord; a match whose
\* term has no counter is left out. All IndexRecords belong to one model.
get_matches(idx, g, terms) ==
  LET matching_terms == [term \in SeqToSet(terms) \cap DOMAIN g |-> g[term]]
      matches == {row \in idx : row.iexact \in SeqToSet(terms)}
  IN [match \in {row \in matches : row.iexact \in DOMAIN matching_terms} |->
        <<matching_terms[match.iexact]>>]

\* The orders a dict can hand out its items in.
RECURSIVE Orders(_)
Orders(S) ==
  IF S = {} THEN {<<>>}
  ELSE UNION {{<<x>> \o rest : rest \in Orders(S \ {x})} : x \in S}

RECURSIVE SumSeq(_)
SumSeq(ns) == IF ns = <<>> THEN 0 ELSE Head(ns) + SumSeq(Tail(ns))

\* The plain mean of the counts, sum / n: more matches are not rewarded.
ScoreMean(matching_terms) ==
  [num |-> SumSeq(matching_terms), den |-> Len(matching_terms)]

\* sum(matching_terms) / (n + ((n-1) * 0.5)), as the fraction 2*sum / (3n-1).
Score(matching_terms) ==
  [num |-> 2 * SumSeq(matching_terms), den |-> 3 * Len(matching_terms) - 1]

ScoreLess(a, b) == a.num * b.den < b.num * a.den

\* list.sort(key=score) is stable: an entry goes behind its equals.
RECURSIVE InsertByScore(_, _)
InsertByScore(sorted, entry) ==
  IF sorted = <<>> THEN <<entry>>
  ELSE IF ScoreLess(entry.score, Head(sorted).score) THEN <<entry>> \o sorted
       ELSE <<Head(sorted)>> \o InsertByScore(Tail(sorted), entry)

RECURSIVE SortByScore(_)
SortByScore(entries) ==
  IF entries = <<>> THEN <<>>
  ELSE InsertByScore(SortByScore(SubSeq(entries, 1, Len(entries) - 1)),
                     entries[Len(entries)])

\* _weight_results; items is the order of obj_weights.items().
weight_results(obj_weights, items) ==
  SortByScore([i \in 1..Len(items) |->
                 [score |-> Score(obj_weights[items[i]]), record |-> items[i]]])

\* A Python slice seq[from:to] with 0 <= from.
Slice(seq, from, to) == SubSeq(seq, from + 1, Min(to, Len(seq)))

\* Paging that restricts to the page only, without the cap of total_pages.
apply_paging_uncapped(final_weights, per_page, current_page, total_pages) ==
  LET offset == (current_page - 1) * per_page
  IN Slice(final_weights, offset, offset + per_page)

\* _apply_paging_to_results
apply_paging_to_results(final_weights, per_page, current_page, total_pages) ==
  LET offset == (current_page - 1) * per_page
  IN Slice(Slice(final_weights, 0, total_pages * per_page), offset, offset + per_page)

\* _get_result_order: the match objects, best first.
get_result_order(obj_weights, items, per_page, current_page, total_pages) ==
  LET final_weights == apply_paging_to_results(weight_results(obj_weights, items),
                                               per_page, current_page, total_pages)
  IN [i \in 1..Len(final_weights) |-> final_weights[i].record]

RECURSIVE SelectOwners(_, _)
SelectOwners(order, owners) ==
  IF order = <<>> THEN <<>>
  ELSE (IF Head(order).owner \in owners THEN <<Head(order).owner>> ELSE <<>>)
         \o SelectOwners(Tail(order), owners)

\* search: the owners of the ranked matches that resolve in the collection,
\* in rank order.
search(db, collection, search_string, per_page, current_page, total_pages, items) ==
  LET obj_weights == get_matches(db.index, db.goc, UnscopedTerms(search_string))
  IN SelectOwners(get_result_order(obj_weights, items, per_page, current_page,
                                   total_pages), collection)

\* The results search can return, whatever the order of the dict.
SearchResults(db, collection, search_string) ==
  LET obj_weights == get_matches(db.index, db.goc, UnscopedTerms(search_string))
  IN {search(db, collection, search_string, PerPage, CurrentPage, TotalPages, items) :
        items \in Orders(DOMAIN obj_weights)}

\* ------------------------------------------------- Index of models.py
\* shlex.split fails with ValueError on a quotation that is never closed.
ShlexError(s) == Cardinality({k \in 1..Len(s) : s[k] = "\""}) % 2 = 1

\* shlex.split(s): the runs of characters between whitespace, a quoted
\* section keeping its whitespace and losing its quotes; "" is an empty token.
RECURSIVE ShlexFrom(_, _, _, _, _)
ShlexFrom(s, i, token, started, quoted) ==
  IF i > Len(s) THEN (IF started THEN <<token>> ELSE <<>>)
  ELSE IF s[i] = "\"" THEN ShlexFrom(s, i + 1, token, TRUE, ~quoted)
  ELSE IF s[i] = " " /\ ~quoted
       THEN (IF started THEN <<token>> ELSE <<>>) \o ShlexFrom(s, i + 1, <<>>, FALSE, FALSE)
       ELSE ShlexFrom(s, i + 1, Append(token, s[i]), TRUE, quoted)

\* Index.parse_terms: shlex.split(cls.normalize(search_string))
Index_parse_terms(search_string) ==
  ShlexFrom([k \in 1..Len(search_string) |-> Lower(search_string[k])], 1, <<>>,
            FALSE, FALSE)

\* The counts of the counters of some matches, one per match.
RECURSIVE CountsOf(_, _)
CountsOf(matches, g) ==
  IF matches = {} THEN <<>>
  ELSE LET match == CHOOSE row \in matches : TRUE
       IN <<g[match.iexact]>> \o CountsOf(matches \ {match}, g)

\* Index._get_matches fails with KeyError: matching_terms[match.iexact] of a
\* match whose term has no counter.
Index_KeyError(idx, g, terms) ==
  \E row \in idx : row.iexact \in SeqToSet(terms) /\ row.iexact \notin DOMAIN g

\* Index._get_matches: obj_weights, keyed by the owner's identifier.
Index_get_matches(idx, g, terms) ==
  LET matches == {row \in idx : row.iexact \in SeqToSet(terms)}
  IN [pk \in {row.owner : row \in matches} |->
        CountsOf({row \in matches : row.owner = pk}, g)]

\* Index._weight_results: final_weights.sort() orders the (score, pk)
\* tuples by score and, for equal scores, by pk.
Index_weight_results(obj_weights) ==
  LET Before(a, b) == \/ ScoreLess(Score(obj_weights[a]), Score(obj_weights[b]))
                      \/ /\ ~ScoreLess(Score(obj_weights[b]), Score(obj_weights[a]))
                         /\ a <= b
      pks == CHOOSE seq \in Orders(DOMAIN obj_weights) :
               \A i, j \in 1..Len(seq) : i < j => Before(seq[i], seq[j])
  IN [k \in 1..Len(pks) |-> [score |-> Score(obj_weights[pks[k]]), record |-> pks[k]]]

\* Index._get_result_order: the dict {pk: position}, positions from 0.
Index_get_result_order(obj_weights, per_page, current_page, total_pages) ==
  LET final_weights == apply_paging_to_results(Index_weight_results(obj_weights),
                                               per_page, current_page, total_pages)
  IN [pk \in {final_weights[k].record : k \in 1..Len(final_weights)} |->
        (CHOOSE k \in 1..Len(final_weights) : final_weights[k].record = pk) - 1]

\* What a call ends with: the exception it raised, or its return value.
Raised(error) == [error |-> error, results |-> <<>>]
Returned(results) == [error |-> "none", results |-> results]

\* Index.search; queryset holds the pks of model_class.objects.filter(**filters).
\* A slot of sorted_results that is never assigned keeps None, here 0.
Index_search(db, queryset, search_string, per_page, current_page, total_pages) ==
  LET terms == Index_parse_terms(search_string)
  IN IF ShlexError(search_string) THEN Raised("ValueError")
     ELSE IF Index_KeyError(db.index, db.goc, terms) THEN Raised("KeyError")
     ELSE LET order == Index_get_result_order(
                         Index_get_matches(db.index, db.goc, terms),
                         per_page, current_page, total_pages)
              results == queryset \cap DOMAIN order
              n == Cardinality(results)
          IN IF \E r \in results : order[r] >= n THEN Raised("IndexError")
             ELSE Returned([k \in 1..n |->
                              IF \E r \in results : order[r] = k - 1
                              THEN CHOOSE r \in results : order[r] = k - 1
                              ELSE 0])

\* ----------------------------------------------------------------- actions
\* The instances the workers hold in memory.
RECURSIVE Concat(_)
Concat(seqs) == IF seqs = <<>> THEN <<>> ELSE Head(seqs) \o Concat(Tail(seqs))

Loaded == Concat([p \in 1..Cardinality(Procs) |-> frame[p].records])

\* Where unindex returns to: reindex goes on to _do_index.
AfterUnindex(unit) == IF unit.kind = "reindex" THEN "do_index" ELSE "idle"

\* An unindex that leaves its loop after the first record.
NextDeleteOnce(unit, rest) == AfterUnindex(unit)

\* for record in list(records): the loop goes on while records remain.
NextDelete(unit, rest) == IF rest = <<>> THEN AfterUnindex(unit) ELSE "delete"

Finish(p, f) == IF pc'[p] = "idle" THEN NoFrame ELSE f

\* An index that looks at defer_index only.
DeferredByFlag(defer_index, in_txn) == defer_index

\* index: if db.is_in_transaction() or defer_index
Deferred(defer_index, in_txn) == in_txn \/ defer_index

\* AbstractIndex.index: defer reindex, or run it.
Index(p, r, fields, defer_index, in_txn) ==
  /\ Free(p)
  /\ calls' = calls + 1
  /\ LET obj == [pk |-> r, data |-> content[r]]
     IN IF Deferred(defer_index, in_txn)
        THEN /\ queue' = queue (+) SetToBag({ReindexUnit(obj, fields, defer_index, in_txn)})
             /\ UNCHANGED <<pc, frame>>
        ELSE /\ pc' = [pc EXCEPT ![p] = "unindex"]
             /\ frame' = [frame EXCEPT ![p] =
                            [NoFrame EXCEPT !.unit = ReindexUnit(obj, fields, defer_index, in_txn)]]
             /\ UNCHANGED queue
  /\ UNCHANGED <<content, index, goc, redelivered>>

\* AbstractIndex.unindex, called by the owner of the object.
Unindex(p, r) ==
  /\ Free(p)
  /\ calls' = calls + 1
  /\ pc' = [pc EXCEPT ![p] = "unindex"]
  /\ frame' = [frame EXCEPT ![p] =
                 [NoFrame EXCEPT !.unit = UnindexUnit([pk |-> r, data |-> content[r]])]]
  /\ UNCHANGED <<content, index, goc, queue, redelivered>>

\* GlobalOccuranceCount.update, called on a loaded counter.
Update(p, term) ==
  /\ Free(p)
  /\ term \in DOMAIN goc
  /\ calls' = calls + 1
  /\ pc' = [pc EXCEPT ![p] = "update_sum"]
  /\ frame' = [frame EXCEPT ![p] = [NoFrame EXCEPT !.unit = UpdateUnit(term)]]
  /\ UNCHANGED <<content, index, goc, queue, redelivered>>

\* The queue delivers a task to a worker; dup: the task stays queued and
\* will be delivered again.
StartTask(p, t, dup) ==
  /\ Free(p)
  /\ t \in BagToSet(queue)
  /\ dup => redelivered < MaxRedeliver
  /\ redelivered' = IF dup THEN redelivered + 1 ELSE redelivered
  /\ queue' = IF dup THEN queue ELSE queue (-) SetToBag({t})
  /\ IF t.kind = "reindex"
     THEN /\ pc' = [pc EXCEPT ![p] = "unindex"]
          /\ frame' = [frame EXCEPT ![p] =
                         [NoFrame EXCEPT !.unit = t, !.task = TRUE]]
     ELSE /\ pc' = [pc EXCEPT ![p] = "index_term"]
          /\ frame' = [frame EXCEPT ![p] =
                         [NoFrame EXCEPT !.unit = t, !.task = TRUE,
                                         !.work = << <<t.field, t.text, t.term>> >>]]
  /\ UNCHANGED <<content, index, goc, calls>>

\* unindex: records = self._get_records(obj); list(records)
GetRecords(p) ==
  /\ pc[p] = "unindex"
  /\ LET unit == frame[p].unit
         records == get_records(index, unit.obj)
     IN /\ pc' = [pc EXCEPT ![p] = NextDelete(unit, records)]
        /\ frame' = [frame EXCEPT ![p] =
                       Finish(p, [@ EXCEPT !.records = records,
                                           !.unindexed = (records = <<>>)])]
  /\ UNCHANGED <<content, index, goc, queue, calls, redelivered>>

\* unindex: record.delete() of the next record, one transaction.
DeleteRecord(p) ==
  /\ pc[p] = "delete"
  /\ LET unit == frame[p].unit
         record == Head(frame[p].records)
         rest == Tail(frame[p].records)
     IN /\ goc' = DeleteGoc(goc, record)
        /\ index' = DeleteIndex(index, goc, record)
        /\ pc' = [pc EXCEPT ![p] = NextDelete(unit, rest)]
        /\ frame' = [frame EXCEPT ![p] =
                       Finish(p, [@ EXCEPT !.records = rest, !.last = record,
                                           !.unindexed = (rest = <<>>)])]
  /\ UNCHANGED <<content, queue, calls, redelivered>>

\* _do_index: defer one _index_term per generated term, or run them here.
DoIndex(p) ==
  /\ pc[p] = "do_index"
  /\ LET unit == frame[p].unit
         work == DoIndexWork(unit.obj, unit.fields)
     IN IF unit.defer_index
        THEN /\ queue' = queue (+) WorkBag(unit.obj, work)
             /\ pc' = [pc EXCEPT ![p] = "idle"]
             /\ frame' = [frame EXCEPT ![p] = NoFrame]
        ELSE /\ pc' = [pc EXCEPT ![p] = IF work = <<>> THEN "idle" ELSE "index_term"]
             /\ frame' = [frame EXCEPT ![p] = Finish(p, [@ EXCEPT !.work = work])]
             /\ UNCHANGED queue
  /\ UNCHANGED <<content, index, goc, calls, redelivered>>

\* _index_term: self.get_or_create_record(obj, field, term_, term_count)
IndexTermRecord(p) ==
  /\ pc[p] = "index_term"
  /\ LET cur == Head(frame[p].work)
     IN index' = get_or_create_record(index, frame[p].unit.obj, cur[1], cur[3],
                                      term_count(cur[2], cur[3]), FreshPk(index, Loaded))
  /\ pc' = [pc EXCEPT ![p] = "counter"]
  /\ UNCHANGED <<content, goc, queue, frame, calls, redelivered>>

\* _index_term: counter, created = GlobalOccuranceCount.objects.get_or_create(pk=term_)
IndexTermCounter(p) ==
  /\ pc[p] = "counter"
  /\ LET cur == Head(frame[p].work)
     IN /\ goc' = CounterGetOrCreate(goc, cur[3])
        /\ frame' = [frame EXCEPT ![p].counter = goc'[cur[3]]]
  /\ pc' = [pc EXCEPT ![p] = "save"]
  /\ UNCHANGED <<content, index, queue, calls, redelivered>>

\* _index_term: counter.count += term_count; counter.save()
IndexTermSave(p) ==
  /\ pc[p] = "save"
  /\ LET cur == Head(frame[p].work)
         rest == Tail(frame[p].work)
     IN /\ goc' = GocPut(goc, cur[3],
                         SaveCount(frame[p].counter, term_count(cur[2], cur[3])))
        /\ pc' = [pc EXCEPT ![p] = IF rest = <<>> THEN "idle" ELSE "index_term"]
        /\ frame' = [frame EXCEPT ![p] = Finish(p, [@ EXCEPT !.work = rest, !.counter = 0])]
  /\ UNCHANGED <<content, index, queue, calls, redelivered>>

\* update: count = sum(... filter(iexact=self.id) ...)
UpdateSum(p) ==
  /\ pc[p] = "update_sum"
  /\ frame' = [frame EXCEPT ![p].counter = SumOccurances(index, frame[p].unit.term)]
  /\ pc' = [pc EXCEPT ![p] = "update_txn"]
  /\ UNCHANGED <<content, index, goc, queue, calls, redelivered>>

\* update: txn() reads the counter, sets the count and saves it; a missing
\* counter raises DoesNotExist.
UpdateTxn(p) ==
  /\ pc[p] = "update_txn"
  /\ LET term == frame[p].unit.term
     IN goc' = IF term \in DOMAIN goc THEN GocPut(goc, term, frame[p].counter) ELSE goc
  /\ pc' = [pc EXCEPT ![p] = "idle"]
  /\ frame' = [frame EXCEPT ![p] = NoFrame]
  /\ UNCHANGED <<content, index, queue, calls, redelivered>>

\* ---------------------------------------------------------- specifications
\* post_save_index: Index.index(instance, fields_to_index, defer_index=not raw)
\* with the fields of instance.Search.
SearchFields == <<"field1", "field2">>

\* The store after the objects 1..n have been indexed, one after the other.
RECURSIVE Indexed(_, _)
Indexed(rows, n) ==
  IF n = 0 THEN [index |-> {}, goc |-> NoGoc]
  ELSE RunReindex(Indexed(rows, n - 1), [pk |-> n, data |-> rows[n]], SearchFields)

\* No write has met a conflict and nothing was cancelled.
NoConflict == [conflicts |-> 0, cancelled |-> FALSE]

\* No function has been called.
NoArgs == [fn |-> "none"]
NoResult == [fn |-> "none"]

\* No call is in progress; db is the store.
Start(db) ==
  /\ index = db.index
  /\ goc = db.goc
  /\ queue = EmptyBag
  /\ pc = [p \in Procs |-> "idle"]
  /\ frame = [p \in Procs |-> NoFrame]
  /\ calls = 0
  /\ redelivered = 0
  /\ lastOp = [r \in Records |-> NoUnit]
  /\ lastCall = NoUnit
  /\ prev = [call |-> NoUnit, db |-> View(db)]
  /\ args = NoArgs
  /\ result = NoResult
  /\ env = NoConflict

\* The concurrent specifications start with nothing indexed yet, or with
\* every object indexed (as after loading a fixture).
Init ==
  /\ content \in [Records -> PlainContents]
  /\ \E n \in {0, NumRecords} : Start(Indexed(content, n))

\* The sequential specification starts with nothing indexed.
InitSeq ==
  /\ content \in [Records -> Contents]
  /\ Start(Indexed(content, 0))

\* The record of completed calls, kept for the sequential specification.
Completed == <<lastOp, lastCall, prev, args, result, env>>

\* Concurrent callers outside transactions, indexing without deferral
\* (post_save_index with raw=True), unindexing and recomputing counters.
Next ==
  \/ \E p \in Procs, r \in Records :
       calls < MaxCalls /\ Index(p, r, SearchFields, FALSE, FALSE) /\ UNCHANGED Completed
  \/ \E p \in Procs, r \in Records :
       calls < MaxCalls /\ Unindex(p, r) /\ UNCHANGED Completed
  \/ \E p \in Procs, term \in DOMAIN goc :
       calls < MaxCalls /\ Update(p, term) /\ UNCHANGED Completed
  \/ \E p \in Procs : GetRecords(p) /\ UNCHANGED Completed
  \/ \E p \in Procs : DeleteRecord(p) /\ UNCHANGED Completed
  \/ \E p \in Procs : DoIndex(p) /\ UNCHANGED Completed
  \/ \E p \in Procs : IndexTermRecord(p) /\ UNCHANGED Completed
  \/ \E p \in Procs : IndexTermCounter(p) /\ UNCHANGED Completed
  \/ \E p \in Procs : IndexTermSave(p) /\ UNCHANGED Completed
  \/ \E p \in Procs : UpdateSum(p) /\ UNCHANGED Completed
  \/ \E p \in Procs : UpdateTxn(p) /\ UNCHANGED Completed

Spec == Init /\ [][Next]_vars

\* No caller works on the object r.
Unclaimed(r) == \A q \in Procs : Idle(q) \/ frame[q].unit.obj.pk # r

\* Concurrent indexers and unindexers of different objects: no object is
\* worked on by two callers at a time.
NextIndexers ==
  \/ \E p \in Procs, r \in Records :
       /\ calls < MaxCalls /\ Unclaimed(r)
       /\ Index(p, r, SearchFields, FALSE, FALSE) /\ UNCHANGED Completed
  \/ \E p \in Procs, r \in Records :
       /\ calls < MaxCalls /\ Unclaimed(r)
       /\ Unindex(p, r) /\ UNCHANGED Completed
  \/ \E p \in Procs : GetRecords(p) /\ UNCHANGED Completed
  \/ \E p \in Procs : DeleteRecord(p) /\ UNCHANGED Completed
  \/ \E p \in Procs : DoIndex(p) /\ UNCHANGED Completed
  \/ \E p \in Procs : IndexTermRecord(p) /\ UNCHANGED Completed
  \/ \E p \in Procs : IndexTermCounter(p) /\ UNCHANGED Completed
  \/ \E p \in Procs : IndexTermSave(p) /\ UNCHANGED Completed

SpecIndexers == Init /\ [][NextIndexers]_vars

\* Callers in or outside transactions, indexing deferred or not; the task
\* queue delivers each task once, in any order, to the workers.
NextQueue ==
  \/ \E p \in Procs, r \in Records, defer_index \in BOOLEAN, in_txn \in BOOLEAN :
       calls < MaxQueueCalls /\ Index(p, r, SearchFields, defer_index, in_txn)
         /\ UNCHANGED Completed
  \/ \E p \in Procs, r \in Records :
       calls < MaxQueueCalls /\ Unindex(p, r) /\ UNCHANGED Completed
  \/ \E p \in Procs, t \in BagToSet(queue) :
       StartTask(p, t, FALSE) /\ UNCHANGED Completed
  \/ \E p \in Procs : GetRecords(p) /\ UNCHANGED Completed
  \/ \E p \in Procs : DeleteRecord(p) /\ UNCHANGED Completed
  \/ \E p \in Procs : DoIndex(p) /\ UNCHANGED Completed
  \/ \E p \in Procs : IndexTermRecord(p) /\ UNCHANGED Completed
  \/ \E p \in Procs : IndexTermCounter(p) /\ UNCHANGED Completed
  \/ \E p \in Procs : IndexTermSave(p) /\ UNCHANGED Completed

SpecQueue == Init /\ [][NextQueue]_vars

\* The same with at-least-once delivery: the queue may deliver a task again.
NextRedeliver ==
  \/ \E p \in Procs, r \in Records, defer_index \in BOOLEAN, in_txn \in BOOLEAN :
       calls < MaxQueueCalls /\ Index(p, r, SearchFields, defer_index, in_txn)
         /\ UNCHANGED Completed
  \/ \E p \in Procs, r \in Records :
       calls < MaxQueueCalls /\ Unindex(p, r) /\ UNCHANGED Completed
  \/ \E p \in Procs, t \in BagToSet(queue), dup \in BOOLEAN :
       StartTask(p, t, dup) /\ UNCHANGED Completed
  \/ \E p \in Procs : GetRecords(p) /\ UNCHANGED Completed
  \/ \E p \in Procs : DeleteRecord(p) /\ UNCHANGED Completed
  \/ \E p \in Procs : DoIndex(p) /\ UNCHANGED Completed
  \/ \E p \in Procs : IndexTermRecord(p) /\ UNCHANGED Completed
  \/ \E p \in Procs : IndexTermCounter(p) /\ UNCHANGED Completed
  \/ \E p \in Procs : IndexTermSave(p) /\ UNCHANGED Completed

SpecRedeliver == Init /\ [][NextRedeliver]_vars

\* One caller, outside any transaction and with defer_index=False: every
\* call runs to its end before the next one is made.
Completes(unit, db) ==
  /\ calls < MaxSeqCalls
  /\ calls' = calls + 1
  /\ index' = db.index
  /\ goc' = db.goc
  /\ prev' = [call |-> lastCall, db |-> View(Store)]
  /\ lastCall' = unit
  /\ lastOp' = [lastOp EXCEPT ![unit.obj.pk] = unit]
  /\ UNCHANGED <<content, queue, pc, frame, redelivered, args, result, env>>

\* index(obj, fields, defer_index=False)
IndexNow(r, fields) ==
  LET obj == [pk |-> r, data |-> content[r]]
  IN Completes(ReindexUnit(obj, fields, FALSE, FALSE), RunReindex(Store, obj, fields))

\* unindex(obj)
UnindexNow(r) ==
  LET obj == [pk |-> r, data |-> content[r]]
  IN Completes(UnindexUnit(obj), RunUnindex(Store, obj))

NextSeq ==
  \/ \E r \in Records, fields \in FieldLists : IndexNow(r, fields)
  \/ \E r \in Records : UnindexNow(r)

SpecSeq == InitSeq /\ [][NextSeq]_vars

\* ------------------------------------------- content that changes in between
\* index(obj, fields) with defer_index=True; the call and the one before it
\* are recorded.
DeferIndex(p, r) ==
  /\ calls < MaxCalls
  /\ Index(p, r, SearchFields, TRUE, FALSE)
  /\ lastCall' = ReindexUnit([pk |-> r, data |-> content[r]], SearchFields, TRUE, FALSE)
  /\ prev' = [call |-> lastCall, db |-> prev.db]
  /\ UNCHANGED <<content, lastOp, args, result, env>>

\* The owner changes the fields of the object it has just asked to index and
\* saves it.
ChangeContent(r) ==
  /\ calls = 1
  /\ lastCall.kind = "reindex" /\ lastCall.obj.pk = r
  /\ content[r] = lastCall.obj.data
  /\ \E data \in PlainContents \ {content[r]} :
       content' = [content EXCEPT ![r] = data]
  /\ UNCHANGED <<index, goc, queue, pc, frame, calls, redelivered,
                 lastOp, lastCall, prev, args, result, env>>

\* Deferred indexing of objects whose content changes between two calls;
\* the queue delivers each task once, in any order.
NextLatest ==
  \/ \E p \in Procs, r \in Records : DeferIndex(p, r)
  \/ \E r \in Records : ChangeContent(r)
  \/ \E p \in Procs, t \in BagToSet(queue) :
       StartTask(p, t, FALSE) /\ UNCHANGED <<content, Completed>>
  \/ \E p \in Procs : GetRecords(p) /\ UNCHANGED Completed
  \/ \E p \in Procs : DeleteRecord(p) /\ UNCHANGED Completed
  \/ \E p \in Procs : DoIndex(p) /\ UNCHANGED Completed
  \/ \E p \in Procs : IndexTermRecord(p) /\ UNCHANGED Completed
  \/ \E p \in Procs : IndexTermCounter(p) /\ UNCHANGED Completed
  \/ \E p \in Procs : IndexTermSave(p) /\ UNCHANGED Completed

SpecLatest == Init /\ [][NextLatest]_vars

\* ------------------------------------------------- recomputing a counter
\* GlobalOccuranceCount.update(index_class) called by the second caller; the
\* call is recorded.
Recompute(term) ==
  /\ calls < MaxCalls
  /\ Update(2, term)
  /\ lastCall' = UpdateUnit(term)
  /\ UNCHANGED <<lastOp, prev, args, result, env>>

\* One caller indexes and unindexes outside transactions, the other
\* recomputes counters; their steps interleave.
NextRecompute ==
  \/ \E r \in Records :
       calls < MaxCalls /\ Index(1, r, SearchFields, FALSE, FALSE) /\ UNCHANGED Completed
  \/ \E r \in Records :
       calls < MaxCalls /\ Unindex(1, r) /\ UNCHANGED Completed
  \/ \E term \in DOMAIN goc : Recompute(term)
  \/ GetRecords(1) /\ UNCHANGED Completed
  \/ DeleteRecord(1) /\ UNCHANGED Completed
  \/ DoIndex(1) /\ UNCHANGED Completed
  \/ IndexTermRecord(1) /\ UNCHANGED Completed
  \/ IndexTermCounter(1) /\ UNCHANGED Completed
  \/ IndexTermSave(1) /\ UNCHANGED Completed
  \/ UpdateSum(2) /\ UNCHANGED Completed
  \/ UpdateTxn(2) /\ UNCHANGED Completed

SpecRecompute == Init /\ [][NextRecompute]_vars

\* ------------------------------------------------------- write conflicts
\* A write that applies although it raised TransactionFailedError.
FailedSaveApplied(g, term, count) ==
  GocPut(g, term, count)

\* counter.save() that raises TransactionFailedError: the write is not
\* applied.
FailedSave(g, term, count) ==
  g

\* AbstractIndexRecord.delete: txn raises TransactionFailedError, the
\* transaction changes nothing; the loop sleeps and tries the record again.
DeleteConflict(p) ==
  /\ pc[p] = "delete"
  /\ env.conflicts < MaxConflicts
  /\ env' = [env EXCEPT !.conflicts = @ + 1]
  /\ UNCHANGED <<content, index, goc, queue, pc, frame, calls, redelivered,
                 lastOp, lastCall, prev, args, result>>

\* _index_term: a write of txn(term) raises TransactionFailedError (the
\* creation of the record, of the counter, or counter.save()); the loop
\* sleeps and calls txn(term) again from its start.
IndexTermConflict(p) ==
  /\ pc[p] \in {"index_term", "counter", "save"}
  /\ env.conflicts < MaxConflicts
  /\ env' = [env EXCEPT !.conflicts = @ + 1]
  /\ goc' = IF pc[p] = "save"
            THEN LET cur == Head(frame[p].work)
                 IN FailedSave(goc, cur[3],
                               SaveCount(frame[p].counter, term_count(cur[2], cur[3])))
            ELSE goc
  /\ pc' = [pc EXCEPT ![p] = "index_term"]
  /\ UNCHANGED <<content, index, queue, frame, calls, redelivered,
                 lastOp, lastCall, prev, args, result>>

\* GlobalOccuranceCount.update: txn raises TransactionFailedError, the loop
\* sleeps and runs txn again with the sum computed before the loop.
UpdateConflict(p) ==
  /\ pc[p] = "update_txn"
  /\ env.conflicts < MaxConflicts
  /\ env' = [env EXCEPT !.conflicts = @ + 1]
  /\ UNCHANGED <<content, index, goc, queue, pc, frame, calls, redelivered,
                 lastOp, lastCall, prev, args, result>>

\* The calling environment cancels the operation in progress (a deadline of
\* the request or of the task); no statement of the loops reads it.
Cancel(p) ==
  /\ ~Idle(p) /\ ~env.cancelled
  /\ env' = [env EXCEPT !.cancelled = TRUE]
  /\ UNCHANGED <<content, index, goc, queue, pc, frame, calls, redelivered,
                 lastOp, lastCall, prev, args, result>>

\* The call the caller makes is recorded with what it leaves when no write
\* of it fails.
Called(unit, db) ==
  /\ calls < MaxRetryCalls
  /\ prev' = [call |-> unit, db |-> View(db)]
  /\ UNCHANGED <<lastOp, lastCall, args, result, env>>

\* The statements of the one caller.
StepRetry ==
  \/ GetRecords(1) /\ UNCHANGED Completed
  \/ DeleteRecord(1) /\ UNCHANGED Completed
  \/ DoIndex(1) /\ UNCHANGED Completed
  \/ IndexTermRecord(1) /\ UNCHANGED Completed
  \/ IndexTermCounter(1) /\ UNCHANGED Completed
  \/ IndexTermSave(1) /\ UNCHANGED Completed
  \/ UpdateSum(1) /\ UNCHANGED Completed
  \/ UpdateTxn(1) /\ UNCHANGED Completed

\* One caller indexes, unindexes or recomputes a counter without deferral;
\* the store raises conflicts on its writes, at most MaxConflicts of them.
NextRetry ==
  \/ \E r \in Records :
       LET obj == [pk |-> r, data |-> content[r]]
       IN /\ Index(1, r, SearchFields, FALSE, FALSE)
          /\ Called(ReindexUnit(obj, SearchFields, FALSE, FALSE),
                    RunReindex(Store, obj, SearchFields))
  \/ \E r \in Records :
       LET obj == [pk |-> r, data |-> content[r]]
       IN Unindex(1, r) /\ Called(UnindexUnit(obj), RunUnindex(Store, obj))
  \/ \E term \in DOMAIN goc :
       /\ Update(1, term)
       /\ Called(UpdateUnit(term),
                 [index |-> index, goc |-> GocPut(goc, term, SumOccurances(index, term))])
  \/ StepRetry
  \/ DeleteConflict(1)
  \/ IndexTermConflict(1)
  \/ UpdateConflict(1)
  \/ Cancel(1)

\* The caller goes on running: a statement that can run does run.
SpecRetry == Init /\ [][NextRetry]_vars /\ WF_vars(StepRetry)

\* ---------------------------------------------- objects with empty fields
\* Objects with a field that is None or holds stopwords only.
EmptyFieldContents ==
  {[field1 |-> StrValue(<<"x">>), field2 |-> NoneValue],
   [field1 |-> StrValue(<<"x">>), field2 |-> StrValue(<<"a", " ", "s">>)],
   [field1 |-> NoneValue, field2 |-> StrValue(<<"a">>)]}

EmptyFieldLists == {<<"field1">>, <<"field2">>, <<"field1", "field2">>}

InitEmptyFields ==
  /\ content \in [Records -> EmptyFieldContents]
  /\ Start(Indexed(content, 0))

\* One caller indexes any of the fields and unindexes, one call at a time.
NextEmptyFields ==
  \/ \E r \in Records, fields \in EmptyFieldLists : IndexNow(r, fields)
  \/ \E r \in Records : UnindexNow(r)

SpecEmptyFields == InitEmptyFields /\ [][NextEmptyFields]_vars

\* ------------------------------------------------- deferred index units
\* get_or_create outside a transaction (the decorator of _index_term is
\* disabled) is a lookup and, when the lookup finds nothing, a create. The
\* lookup of a unit:
IndexTermLookup(p) ==
  /\ pc[p] = "index_term"
  /\ LET cur == Head(frame[p].work)
         found == {r \in index : /\ r.iexact = cur[3] /\ r.field = cur[1]
                                  /\ r.owner = frame[p].unit.obj.pk}
     IN frame' = [frame EXCEPT ![p].last =
                    IF found = {} THEN NoRecord ELSE CHOOSE r \in found : TRUE]
  /\ pc' = [pc EXCEPT ![p] = "create"]
  /\ UNCHANGED <<content, index, goc, queue, calls, redelivered>>

\* The create of a unit whose lookup found no record.
IndexTermCreate(p) ==
  /\ pc[p] = "create"
  /\ LET cur == Head(frame[p].work)
     IN index' = IF frame[p].last # NoRecord THEN index
                 ELSE index \cup {[pk |-> FreshPk(index, Loaded), iexact |-> cur[3],
                                    field |-> cur[1], owner |-> frame[p].unit.obj.pk,
                                    occurances |-> term_count(cur[2], cur[3])]}
  /\ pc' = [pc EXCEPT ![p] = "counter"]
  /\ UNCHANGED <<content, goc, queue, frame, calls, redelivered>>

\* An object with a word twice in one field, and one with the same word in
\* two fields.
UnitContents ==
  {[field1 |-> StrValue(<<"x", " ", "x">>), field2 |-> NoneValue],
   [field1 |-> StrValue(<<"x">>), field2 |-> StrValue(<<"x">>)]}

InitUnits ==
  /\ content \in [Records -> UnitContents]
  /\ Start(Indexed(content, 0))

\* index with defer_index=True: reindex is a task, and _do_index defers one
\* _index_term task per generated term; the workers run the tasks side by
\* side.
NextUnits ==
  \/ \E p \in Procs, r \in Records :
       calls < MaxQueueCalls /\ Index(p, r, SearchFields, TRUE, FALSE)
         /\ UNCHANGED Completed
  \/ \E p \in Procs, t \in BagToSet(queue) :
       StartTask(p, t, FALSE) /\ UNCHANGED Completed
  \/ \E p \in Procs : GetRecords(p) /\ UNCHANGED Completed
  \/ \E p \in Procs : DoIndex(p) /\ UNCHANGED Completed
  \/ \E p \in Procs : IndexTermLookup(p) /\ UNCHANGED Completed
  \/ \E p \in Procs : IndexTermCreate(p) /\ UNCHANGED Completed
  \/ \E p \in Procs : IndexTermCounter(p) /\ UNCHANGED Completed
  \/ \E p \in Procs : IndexTermSave(p) /\ UNCHANGED Completed

SpecUnits == InitUnits /\ [][NextUnits]_vars

\* -------------------------------------------------------------- searching
\* The search strings: a word, two words, the empty quoted string, the empty
\* string and a stopword.
SearchQueries ==
  {<<"x">>, <<"b">>, <<"x", " ", "b">>, <<"\"", "\"">>, <<>>, <<"a">>}

\* A search of the store as it is, in the middle of a caller's indexing or
\* after it: the ranked matches of _get_matches and _get_result_order, and
\* what Index.search of models.py ends with. queryset is the caller's
\* collection after the extra filters.
Search ==
  /\ args = NoArgs /\ result = NoResult
  /\ \E search_string \in SearchQueries, queryset \in SUBSET Records :
       LET obj_weights == get_matches(index, goc, UnscopedTerms(search_string))
       IN \E items \in Orders(DOMAIN obj_weights) :
            /\ args' = [fn |-> "search", search_string |-> search_string,
                        queryset |-> queryset, items |-> items]
            /\ result' = [fn |-> "search",
                          value |-> [order |-> get_result_order(obj_weights, items,
                                                  PerPage, CurrentPage, TotalPages),
                                     legacy |-> Index_search(Store, queryset,
                                                  search_string, PerPage,
                                                  CurrentPage, TotalPages)]]
  /\ UNCHANGED <<content, index, goc, queue, pc, frame, calls, redelivered,
                 lastOp, lastCall, prev, env>>

\* One caller indexes and unindexes; a search can come at any of its steps
\* and ends the behaviour.
NextSearch ==
  \/ \E r \in Records :
       /\ calls < MaxCalls /\ result = NoResult
       /\ Index(1, r, SearchFields, FALSE, FALSE) /\ UNCHANGED Completed
  \/ \E r \in Records :
       /\ calls < MaxCalls /\ result = NoResult
       /\ Unindex(1, r) /\ UNCHANGED Completed
  \/ result = NoResult /\ GetRecords(1) /\ UNCHANGED Completed
  \/ result = NoResult /\ DeleteRecord(1) /\ UNCHANGED Completed
  \/ result = NoResult /\ DoIndex(1) /\ UNCHANGED Completed
  \/ result = NoResult /\ IndexTermRecord(1) /\ UNCHANGED Completed
  \/ result = NoResult /\ IndexTermCounter(1) /\ UNCHANGED Completed
  \/ result = NoResult /\ IndexTermSave(1) /\ UNCHANGED Completed
  \/ Search

InitSearch ==
  /\ content \in [Records -> PlainContents]
  /\ Start(Indexed(content, 0))

SpecSearch == InitSearch /\ [][NextSearch]_vars

\* ------------------------------------------- calls without side effects
\* A call of a function that reads its arguments only: the arguments are
\* drawn at the start, the step applies the function.
StartCall(a) ==
  /\ content = [r \in Records |-> [field1 |-> NoneValue, field2 |-> NoneValue]]
  /\ index = {} /\ goc = NoGoc
  /\ queue = EmptyBag
  /\ pc = [p \in Procs |-> "idle"]
  /\ frame = [p \in Procs |-> NoFrame]
  /\ calls = 0 /\ redelivered = 0
  /\ lastOp = [r \in Records |-> NoUnit]
  /\ lastCall = NoUnit
  /\ prev = [call |-> NoUnit, db |-> View([index |-> {}, goc |-> NoGoc])]
  /\ args = a
  /\ result = NoResult
  /\ env = NoConflict

Returns(fn, value) ==
  /\ args.fn = fn /\ result = NoResult
  /\ result' = [fn |-> fn, value |-> value]
  /\ UNCHANGED <<content, index, goc, queue, pc, frame, calls, redelivered,
                 lastOp, lastCall, prev, args, env>>

\* The words field texts are made of: plain words, a stopword, an
\* underscore-only word and a word the stemmer shortens.
Words == {<<"x">>, <<"b">>, <<"a">>, <<"_", "_">>, <<"x", "b", "s">>}

\* The sequences of at most n words.
RECURSIVE WordSeqs(_)
WordSeqs(n) ==
  IF n = 0 THEN {<<>>}
  ELSE LET shorter == WordSeqs(n - 1)
       IN shorter \cup {Append(ws, w) : ws \in {t \in shorter : Len(t) = n - 1},
                                         w \in Words}

\* The values of a text field: None, or words separated by single spaces.
Texts == {None} \cup {Join(ws) : ws \in WordSeqs(MaxWords)}

\* _generate_terms(text), and the terms of the IndexRecords that indexing an
\* object with this text in field1 creates.
GenerateTerms ==
  LET obj == [pk |-> 1, data |-> [field1 |-> IF args.text = None THEN NoneValue
                                              ELSE StrValue(args.text),
                                   field2 |-> NoneValue]]
      db == RunDoIndex([index |-> {}, goc |-> NoGoc], obj,
                       DoIndexWork(obj, <<"field1">>))
  IN Returns("generate_terms",
             [terms |-> generate_terms(args.text),
              iexacts |-> {row.iexact : row \in db.index}])

InitTerms == \E text \in Texts : StartCall([fn |-> "generate_terms", text |-> text])

SpecTerms == InitTerms /\ [][GenerateTerms]_vars

\* The lists of at most n counts a candidate can have matched.
RECURSIVE CountLists(_)
CountLists(n) ==
  IF n = 0 THEN {}
  ELSE CountLists(n - 1) \cup [1..n -> 1..MaxCount]

Candidates == 1..MaxCandidates

\* The obj_weights dicts: some candidates, each with the counts of its terms.
ObjWeights == UNION {[K -> CountLists(MaxMatched)] : K \in SUBSET Candidates}

\* _weight_results(obj_weights)
WeightResults ==
  Returns("weight_results", weight_results(args.obj_weights, args.items))

\* A list as _weight_results leaves it: ascending scores, some of them equal.
SortedList(n) == [i \in 1..n |-> [score |-> Score(<<(i + 1) \div 2>>), record |-> i]]

\* _apply_paging_to_results(final_weights, per_page, current_page, total_pages)
ApplyPaging ==
  Returns("apply_paging_to_results",
          apply_paging_to_results(args.final_weights, args.per_page,
                                  args.current_page, args.total_pages))

InitRank ==
  \/ \E obj_weights \in ObjWeights : \E items \in Orders(DOMAIN obj_weights) :
       StartCall([fn |-> "weight_results", obj_weights |-> obj_weights,
                  items |-> items])
  \/ \E n \in 0..MaxResults, per_page \in 1..MaxPerPage,
        current_page \in 1..MaxPage, total_pages \in 0..MaxPage :
       StartCall([fn |-> "apply_paging_to_results", final_weights |-> SortedList(n),
                  per_page |-> per_page, current_page |-> current_page,
                  total_pages |-> total_pages])

NextRank == WeightResults \/ ApplyPaging

SpecRank == InitRank /\ [][NextRank]_vars

\* ----------------------------------------------------------------- parsing
\* 'test field:test1, other_field:test2'
LabelledQuery ==
  <<"t", "e", "s", "t", " ", "f", "i", "e", "l", "d", ":", "t", "e", "s",
    "t", "1", ",", " ", "o", "t", "h", "e", "r", "_", "f", "i", "e", "l",
    "d", ":", "t", "e", "s", "t", "2">>

\* The tokens search strings are made of: words, a word under a field, a
\* quoted phrase, the empty quoted string and a quoted phrase under a field.
QueryPieces ==
  {<<"x">>, <<"x", "b", "s">>, <<"b", ":", "x">>, <<"\"", "x", " ", "b", "\"">>,
   <<"\"", "\"">>, <<"x", "b", ":", "\"", "b", " ", "x", "\"">>}

\* The tokens are separated by a space or by a comma and a space.
Separators == {<<" ">>, <<",", " ">>}

RECURSIVE PieceSeqs(_)
PieceSeqs(n) ==
  IF n = 0 THEN {<<>>}
  ELSE LET shorter == PieceSeqs(n - 1)
       IN shorter \cup {Append(ps, piece) : ps \in {t \in shorter : Len(t) = n - 1},
                                            piece \in QueryPieces}

RECURSIVE JoinWith(_, _)
JoinWith(pieces, separator) ==
  IF pieces = <<>> THEN <<>>
  ELSE IF Len(pieces) = 1 THEN pieces[1]
  ELSE pieces[1] \o separator \o JoinWith(Tail(pieces), separator)

\* parse_terms(search_string)
ParseTerms == Returns("parse_terms", parse_terms(args.search_string))

InitParse ==
  \/ StartCall([fn |-> "parse_terms", search_string |-> LabelledQuery,
                pieces |-> <<>>])
  \/ \E pieces \in PieceSeqs(MaxPieces), separator \in Separators :
       StartCall([fn |-> "parse_terms",
                  search_string |-> JoinWith(pieces, separator),
                  pieces |-> pieces])

SpecParse == InitParse /\ [][ParseTerms]_vars

\* ---------------------------------------------------------- canonicalize
\* The words of the raw strings: plain, with one and with two leading
\* underscores, with trailing underscores, underscores only, a stopword.
RawWords ==
  {<<"x">>, <<"_", "x">>, <<"_", "_", "x">>, <<"x", "_", "_">>, <<"_", "_">>, <<"a">>}

RECURSIVE RawWordSeqs(_)
RawWordSeqs(n) ==
  IF n = 0 THEN {<<>>}
  ELSE LET shorter == RawWordSeqs(n - 1)
       IN shorter \cup {Append(ws, w) : ws \in {t \in shorter : Len(t) = n - 1},
                                         w \in RawWords}

\* canonicalize(raw, remove_stopwords, do_stemming)
Canonicalize ==
  Returns("canonicalize",
          canonicalize(args.raw, args.remove_stopwords, args.do_stemming))

InitCanonicalize ==
  \E ws \in RawWordSeqs(MaxRawWords), remove_stopwords \in BOOLEAN,
     do_stemming \in BOOLEAN :
    StartCall([fn |-> "canonicalize", raw |-> Join(ws),
               remove_stopwords |-> remove_stopwords, do_stemming |-> do_stemming])

SpecCanonicalize == InitCanonicalize /\ [][Canonicalize]_vars

\* -------------------------------------------------------- field extraction
\* A related instance, a RelatedManager over instances, an iterable of values.
ObjValue(attrs) == [kind |-> "obj", val |-> attrs]
ManagerValue(objs) == [kind |-> "manager", val |-> objs]
IterValue(vs) == [kind |-> "iter", val |-> vs]

\* The attribute names of the model instances.
Attrs == {<<"a">>, <<"b">>}

\* Attribute values that are not instances: None, a string, a list.
LeafValues ==
  {NoneValue, StrValue(<<"x">>), IterValue(<<StrValue(<<"x">>), StrValue(<<"b">>)>>)}

\* Related instances, and the instances fields are extracted from: their
\* attributes hold None, a string, a list, a related instance or a
\* RelatedManager.
RelatedObjects == {ObjValue(attrs) : attrs \in [Attrs -> LeafValues]}

AttrValues ==
  LeafValues \cup RelatedObjects \cup {ManagerValue(<<o>>) : o \in RelatedObjects}

ModelObjects == {ObjValue(attrs) : attrs \in [Attrs -> AttrValues]}

\* field.split("__")
RECURSIVE SplitFrom(_, _, _)
SplitFrom(s, i, piece) ==
  IF i > Len(s) THEN <<piece>>
  ELSE IF i < Len(s) /\ s[i] = "_" /\ s[i + 1] = "_"
       THEN <<piece>> \o SplitFrom(s, i + 2, <<>>)
       ELSE SplitFrom(s, i + 1, Append(piece, s[i]))

Split(field) == SplitFrom(field, 1, <<>>)

\* The loop of _get_model_data from the i-th lookup on. getattr of a string
\* raises AttributeError; lookups[-2] of a single lookup raises IndexError.
RECURSIVE GetModelDataFrom(_, _, _)
GetModelDataFrom(lookups, value, i) ==
  LET n == Len(lookups)
  IN IF i > n THEN Returned(<<value>>)
     ELSE IF value.kind = "none" THEN GetModelDataFrom(lookups, value, i + 1)
     ELSE IF value.kind # "obj" THEN Raised("AttributeError")
     ELSE LET lookup == lookups[i]
              v == value.val[lookup]
          IN IF v.kind = "manager"
             THEN IF n < 2 THEN Raised("IndexError")
                  ELSE IF lookup = lookups[n - 1]
                       THEN Returned([k \in 1..Len(v.val) |-> v.val[k].val[lookups[n]]])
                       ELSE Raised("TypeError")
             ELSE IF v.kind = "iter"
                  THEN IF lookup = lookups[n] THEN Returned(v.val)
                       ELSE Raised("TypeError")
                  ELSE GetModelDataFrom(lookups, v, i + 1)

\* _get_model_data
get_model_data(field, obj) == GetModelDataFrom(Split(field), obj, 1)

\* The paths of at most n attribute names.
Lookups(n) == UNION {[1..k -> Attrs] : k \in 1..n}

\* The fields: attribute names joined with "__".
Fields == {JoinWith(lookups, <<"_", "_">>) : lookups \in Lookups(MaxLookups)}

\* _get_model_data(field, obj)
GetModelData == Returns("get_model_data", get_model_data(args.field, args.obj))

InitExtract ==
  \E field \in Fields, obj \in ModelObjects :
    StartCall([fn |-> "get_model_data", field |-> field, obj |-> obj])

SpecExtract == InitExtract /\ [][GetModelData]_vars

\* ------------------------------------------------------------- properties
\* The count the counter of term holds; no counter reads as 0.
GocCount(term) == IF term \in DOMAIN goc THEN goc[term] ELSE 0

\* The terms the store knows.
StoredTerms == DOMAIN goc \cup {row.iexact : row \in index}

\* Every counter holds the sum of the occurances of its term's records.
Consistent == \A term \in StoredTerms : GocCount(term) = SumOccurances(index, term)

\* The objects whose last completed call indexed them.
IndexedNow == {r \in Records : lastOp[r].kind = "reindex"}

\* C1: reindex(r, F) called twice in a row on unchanged content leaves
\* the IndexRecords and the counters as one call left them.
C1_ReindexIdempotent ==
  (lastCall.kind = "reindex" /\ prev.call = lastCall) => View(Store) = prev.db

\* C2: after any sequence of completed index, reindex and unindex calls the
\* counter of every term holds the sum of the occurances of the term's
\* IndexRecords, and a term without a counter has no IndexRecord.
C2_CountIsSumOfOccurances ==
  calls > 0 =>
    /\ Consistent
    /\ \A row \in index : row.iexact \in DOMAIN goc

\* C3: once every object that was indexed has been unindexed, no IndexRecord
\* is left and every counter that is left holds 0.
C3_UnindexAllLeavesNothing ==
  (calls > 0 /\ IndexedNow = {}) =>
    /\ index = {}
    /\ \A term \in DOMAIN goc : goc[term] = 0

\* C4: once concurrent indexers and unindexers of different objects have
\* all completed, no counter update is lost: every counter holds the sum of
\* the occurances of its term's IndexRecords.
C4_NoLostCounterUpdate == (Quiescent /\ calls > 0) => Consistent

\* The worker p takes the step record.delete() of its unindex loop.
Deletes(p) ==
  /\ pc[p] = "delete"
  /\ frame'[p] # frame[p]

\* C5: every record.delete() of unindex removes the IndexRecord, also when
\* the counter of its term is missing.
C5_UnindexRemovesEveryRecord ==
  [][\A p \in Procs :
       Deletes(p) => \A row \in index' : row.pk # Head(frame[p].records).pk]_vars

\* C6: no counter ever holds a negative count, and deleting an IndexRecord
\* with at least as many occurances as the counter holds deletes the counter.
C6_CountNeverNegative ==
  /\ [](\A term \in DOMAIN goc : goc[term] >= 0)
  /\ [][\A p \in Procs :
          LET record == Head(frame[p].records)
          IN (Deletes(p) /\ record.iexact \in DOMAIN goc
                /\ goc[record.iexact] <= record.occurances)
               => record.iexact \notin DOMAIN goc']_vars

\* A delete has removed the counter of its record's term together with the
\* record, while another caller is at work.
C6_CounterDeleted ==
  \E p \in Procs, q \in Procs :
    /\ p # q /\ ~Idle(q)
    /\ frame[p].last # NoRecord
    /\ frame[p].last.iexact \notin DOMAIN goc
    /\ \A row \in index : row.pk # frame[p].last.pk

\* The search strings of one word the properties search for.
Queries == {<<"x">>, <<"X">>, <<"b">>, <<"x", "b", "s">>}

\* The terms the search strings parse to.
ParsedQueries == [q \in Queries |-> UnscopedTerms(q)]

\* How often the work of one _do_index counts term.
RECURSIVE TermTotal(_, _)
TermTotal(work, term) ==
  IF work = <<>> THEN 0
  ELSE (IF Head(work)[3] = term THEN term_count(Head(work)[2], term) ELSE 0)
         + TermTotal(Tail(work), term)

\* How often _do_index counts the term of the search string q for an
\* object of content c indexed on fields.
Totals ==
  [c \in Contents |->
     [fields \in FieldLists |->
        [q \in Queries |->
           IF Len(ParsedQueries[q]) = 1
           THEN TermTotal(DoIndexWork([pk |-> 0, data |-> c], fields),
                          ParsedQueries[q][1])
           ELSE 0]]]

\* No object a call has been made for contains the term of q more than once.
AtMostOnce(q) ==
  \A r \in Records : lastOp[r].kind # "none" =>
    \A fields \in FieldLists : Totals[content[r]][fields][q] <= 1

\* The indexed objects that contain the term of q.
Holders(q) ==
  {r \in IndexedNow : Totals[content[r]][lastOp[r].fields][q] = 1}

\* C7: in a sequential run over objects that each contain the term t once,
\* the count of t is the number of indexed objects that contain it and a
\* search for t returns exactly these objects; an unindexed object is not
\* among them any more.
C7_CountAndSearchFollowIndex ==
  \A q \in Queries :
    (Len(ParsedQueries[q]) = 1 /\ AtMostOnce(q)) =>
       LET holders == Holders(q)
       IN /\ GocCount(ParsedQueries[q][1]) = Cardinality(holders)
          /\ \A results \in SearchResults(Store, Records, q) :
                /\ SeqToSet(results) = holders
                /\ Len(results) = Cardinality(holders)

\* Two objects that contain x once were indexed, then one was unindexed.
C7_OneOfTwoUnindexed ==
  /\ lastCall.kind = "unindex"
  /\ <<"x">> \in DOMAIN prev.db.goc /\ prev.db.goc[<<"x">>] = 2
  /\ AtMostOnce(<<"X">>)
  /\ Cardinality(Holders(<<"X">>)) = 1
  /\ lastCall.obj.pk \notin Holders(<<"X">>)
  /\ \A results \in SearchResults(Store, Records, <<"X">>) :
        SeqToSet(results) = Holders(<<"X">>)

\* This step is a call of index.
IndexCalled ==
  /\ calls' = calls + 1
  /\ \A p \in Procs : frame'[p].unit.kind # "unindex" \/ frame'[p] = frame[p]

\* The worker p takes a step of a reindex that index runs in the caller.
StepsInCaller(p) ==
  /\ frame[p].unit.kind = "reindex" /\ ~frame[p].task
  /\ (pc'[p] # pc[p] \/ frame'[p] # frame[p])

\* C8: index called in a transaction or with defer_index schedules exactly
\* one reindex task and returns with the IndexRecords and counters untouched;
\* otherwise it schedules nothing and returns once reindex has run to its end.
C8_IndexDefersOrRuns ==
  /\ [][IndexCalled =>
          \/ /\ \E t \in BagToSet(queue') :
                   /\ t.kind = "reindex" /\ (t.in_txn \/ t.defer_index)
                   /\ queue' = queue (+) SetToBag({t})
             /\ UNCHANGED <<index, goc, pc, frame>>
          \/ /\ queue' = queue
             /\ \E p \in Procs :
                   /\ Idle(p) /\ pc'[p] = "unindex" /\ ~frame'[p].task
                   /\ frame'[p].unit.kind = "reindex"
                   /\ ~frame'[p].unit.in_txn /\ ~frame'[p].unit.defer_index]_vars
  /\ [][\A p \in Procs : StepsInCaller(p) =>
          /\ queue' = queue
          /\ pc'[p] = "idle" =>
                /\ frame[p].unindexed
                /\ \/ pc[p] = "save" /\ Len(frame[p].work) = 1
                   \/ pc[p] = "do_index"
                        /\ DoIndexWork(frame[p].unit.obj, frame[p].unit.fields) = <<>>]_vars

\* index, called in a transaction with defer_index=False, has returned: its
\* reindex task is queued and the store is as it was.
C8_DeferredInTransaction ==
  /\ calls = 1 /\ \A p \in Procs : Idle(p)
  /\ \E t \in BagToSet(queue) : t.kind = "reindex" /\ t.in_txn /\ ~t.defer_index
  /\ View(Store) = prev.db

\* C9: within one reindex, run in the caller or as tasks, unindex has gone
\* through every IndexRecord of the object before a single-term write
\* (_index_term) of that reindex is run or scheduled.
C9_UnindexBeforeIndexTerm ==
  /\ [](\A p \in Procs :
          (frame[p].unit.kind = "reindex"
             /\ pc[p] \in {"do_index", "index_term", "counter", "save"})
            => frame[p].unindexed /\ frame[p].records = <<>>)
  /\ [][\A t \in BagToSet(queue') :
          (t.kind = "index_term" /\ CopiesIn(t, queue') > CopiesIn(t, queue))
            => \E p \in Procs :
                 /\ pc[p] = "do_index" /\ frame[p].unindexed
                 /\ frame[p].unit.kind = "reindex" /\ frame[p].unit.obj = t.obj]_vars

\* A single-term task writes for an object whose earlier IndexRecords the
\* unindex of the same reindex has deleted.
C9_TaskWritesAfterUnindex ==
  /\ calls = 1 /\ prev.db.index # {}
  /\ \E p \in Procs :
       /\ frame[p].unit.kind = "index_term" /\ frame[p].task /\ pc[p] = "counter"
       /\ \A row \in index : row.owner = frame[p].unit.obj.pk =>
             row.iexact = frame[p].unit.term

\* The stores one call leaves when each of its units runs exactly once.
ExactlyOnce(db) ==
  UNION {{View(RunReindex(db, [pk |-> r, data |-> content[r]], SearchFields)),
          View(RunUnindex(db, [pk |-> r, data |-> content[r]]))} : r \in Records}

\* C10: the queue may deliver a task more than once; once every delivery
\* has run, the IndexRecords and counters are those of exactly-once delivery.
C10_DuplicateDeliveryTolerated ==
  (Quiescent /\ calls = 1) =>
    \E n \in {0, NumRecords} :
      /\ View(Indexed(content, n)) = prev.db
      /\ View(Store) \in ExactlyOnce(Indexed(content, n))

\* The windows of j = 1..min(4, n-i) tokens from every start i, in order.
RECURSIVE Windows(_, _)
Windows(tokens, i) ==
  IF i > Len(tokens) THEN <<>>
  ELSE [j \in 1..Min(4, Len(tokens) - i + 1) |-> Join(SubSeq(tokens, i, i + j - 1))]
         \o Windows(tokens, i + 1)

Blank(term) == \A k \in 1..Len(term) : term[k] = " "

\* generate_terms was called on a text and has returned.
TermsReturned == args.fn = "generate_terms" /\ result # NoResult

\* C11: generate_terms returns the windows of 1 to 4 adjacent tokens in
\* ascending order of start and length, without deduplication and without
\* the windows whose joined text is blank, and nothing for None; a window of
\* 4 tokens has an IndexRecord and every IndexRecord term is such a window.
C11_WindowsInOrder ==
  TermsReturned =>
    IF args.text = None THEN result.value.terms = <<>>
    ELSE LET tokens == canonicalize(args.text, TRUE, TRUE)
             windows == Windows(tokens, 1)
         IN /\ result.value.terms = SelectSeq(windows, LAMBDA t : ~Blank(t))
            /\ \A i \in 1..(Len(tokens) - 3) :
                  LET phrase == Join(SubSeq(tokens, i, i + 3))
                  IN ~Blank(phrase) => phrase \in result.value.iexacts
            /\ \A term \in result.value.iexacts :
                  \E k \in 1..Len(windows) : windows[k] = term

\* C11 as stated: every window is returned, blank ones too.
C11_EveryWindowReturned ==
  (TermsReturned /\ args.text # None) =>
    result.value.terms = Windows(canonicalize(args.text, TRUE, TRUE), 1)

\* The terms of a text of five tokens, one of them empty, were generated.
C11_FiveTokensOneEmpty ==
  /\ TermsReturned /\ args.text # None
  /\ Len(canonicalize(args.text, TRUE, TRUE)) = 5
  /\ <<>> \in SeqToSet(canonicalize(args.text, TRUE, TRUE))
  /\ Len(result.value.terms) < Len(Windows(canonicalize(args.text, TRUE, TRUE), 1))

\* C12: for a text whose tokens are not empty, every run of at most 4
\* adjacent tokens is returned exactly once, and no longer run is returned.
C12_EveryRunExactlyOnce ==
  (TermsReturned /\ args.text # None) =>
    LET tokens == canonicalize(args.text, TRUE, TRUE)
        terms == result.value.terms
    IN (\A k \in 1..Len(tokens) : tokens[k] # <<>>) =>
         /\ \A i \in 1..Len(tokens), j \in 1..4 :
               i + j - 1 <= Len(tokens) =>
                 Cardinality({k \in 1..Len(terms) :
                                terms[k] = Join(SubSeq(tokens, i, i + j - 1))}) = 1
         /\ \A k \in 1..Len(terms) :
               \E i \in 1..Len(tokens), j \in 1..4 :
                 i + j - 1 <= Len(tokens) /\ terms[k] = Join(SubSeq(tokens, i, i + j - 1))

\* _weight_results was called on some candidates and has returned.
Ranked == args.fn = "weight_results" /\ result # NoResult

\* The place of a candidate in the ranking.
Place(ranking, record) == CHOOSE k \in 1..Len(ranking) : ranking[k].record = record

\* All counts of the list are c.
AllEqual(counts, c) == \A k \in 1..Len(counts) : counts[k] = c

\* C13: the ranking holds every candidate once with the score
\* sum / (n + (n-1)*0.5) = 2*sum / (3n-1), scores ascend along it, and of two
\* candidates with the same count for every term the one with more terms
\* comes first (so [1, 1] comes before [1]).
C13_AscendingScore ==
  Ranked =>
    LET ranking == result.value
        obj_weights == args.obj_weights
    IN /\ Len(ranking) = Cardinality(DOMAIN obj_weights)
       /\ {ranking[k].record : k \in 1..Len(ranking)} = DOMAIN obj_weights
       /\ \A k \in 1..Len(ranking) :
             LET counts == obj_weights[ranking[k].record]
             IN ranking[k].score.num * (3 * Len(counts) - 1)
                  = 2 * SumSeq(counts) * ranking[k].score.den
       /\ \A k \in 1..(Len(ranking) - 1) :
             ranking[k].score.num * ranking[k + 1].score.den
               <= ranking[k + 1].score.num * ranking[k].score.den
       /\ \A a, b \in DOMAIN obj_weights : \A c \in 1..MaxCount :
             (/\ AllEqual(obj_weights[a], c) /\ AllEqual(obj_weights[b], c)
              /\ Len(obj_weights[a]) > Len(obj_weights[b]))
               => Place(ranking, a) < Place(ranking, b)

\* A candidate with counts [1, 1] that the dict handed out after one with
\* [1] was ranked before it.
C13_TwoOnesBeforeOne ==
  /\ Ranked
  /\ \E a, b \in DOMAIN args.obj_weights :
       /\ args.obj_weights[a] = <<1, 1>> /\ args.obj_weights[b] = <<1>>
       /\ args.items = <<b, a>>
       /\ Place(result.value, a) < Place(result.value, b)

\* _apply_paging_to_results was called on a sorted list and has returned.
Paged == args.fn = "apply_paging_to_results" /\ result # NoResult

\* The first n entries of a list, all of it when it is shorter.
Truncated(list, n) == [k \in 1..Min(n, Len(list)) |-> list[k]]

\* The pages first..last of the call's list, one after the other.
RECURSIVE PagesFrom(_, _)
PagesFrom(first, last) ==
  IF first > last THEN <<>>
  ELSE apply_paging_to_results(args.final_weights, args.per_page, first,
                               args.total_pages)
         \o PagesFrom(first + 1, last)

\* C14: a page is the list cut to its first total_pages*per_page entries and
\* sliced at [(current_page-1)*per_page, current_page*per_page): at most
\* per_page entries, the pages 1..total_pages share no entry and make up the
\* cut list, and a page past the end is empty.
C14_PageIsSliceOfCappedList ==
  Paged =>
    LET capped == Truncated(args.final_weights, args.total_pages * args.per_page)
        offset == (args.current_page - 1) * args.per_page
        page == result.value
        all == PagesFrom(1, args.total_pages)
    IN /\ Len(page) <= args.per_page
       /\ Len(page) = IF offset >= Len(capped) THEN 0
                       ELSE Min(args.per_page, Len(capped) - offset)
       /\ \A k \in 1..Len(page) : page[k] = capped[offset + k]
       /\ all = capped
       /\ \A i, j \in 1..Len(all) : i # j => all[i].record # all[j].record
       /\ (/\ Len(args.final_weights) = 25 /\ args.per_page = 10
           /\ args.current_page = 3 /\ args.total_pages = 2) => page = <<>>

\* Page 3 of 25 candidates at 10 a page, capped at 2 pages, came back empty.
C14_PagePastTheCap ==
  /\ Paged
  /\ Len(args.final_weights) = 25 /\ args.per_page = 10
  /\ args.current_page = 3 /\ args.total_pages = 2
  /\ result.value = <<>>

\* A search was made and has ended.
Searched == args.fn = "search" /\ result # NoResult

\* The IndexRecords whose term is one of the terms.
Matching(terms) == {row \in index : row.iexact \in SeqToSet(terms)}

\* C15: a search whose query has no term that an IndexRecord holds, be it
\* that the query parses to no terms, ends without an error and with the
\* empty sequence: nothing is ranked, and Index.search returns [].
C15_NoResultsIsEmpty ==
  Searched =>
    /\ Matching(UnscopedTerms(args.search_string)) = {}
          => result.value.order = <<>>
    /\ (/\ ~ShlexError(args.search_string)
        /\ Matching(Index_parse_terms(args.search_string)) = {})
          => result.value.legacy = Returned(<<>>)

\* The empty quoted string was searched for in a store that holds
\* IndexRecords, and nothing came back.
C15_EmptyQuotedString ==
  /\ Searched
  /\ args.search_string = <<"\"", "\"">>
  /\ index # {} /\ args.queryset = Records
  /\ result.value.order = <<>> /\ result.value.legacy = Returned(<<>>)

RankedOwners ==
  LET weights == apply_paging_to_results(
                   Index_weight_results(Index_get_matches(index, goc,
                                          Index_parse_terms(args.search_string))),
                   PerPage, CurrentPage, TotalPages)
  IN [k \in 1..Len(weights) |-> weights[k].record]

\* C17: with no indexing in progress, Index.search returns the ranked owners
\* that are in the filtered collection, in rank order, and drops the others
\* without an error and without a placeholder.
C17_ResolvingOwnersInRankOrder ==
  (/\ Searched /\ Quiescent
   /\ ~ShlexError(args.search_string)
   /\ ~Index_KeyError(index, goc, Index_parse_terms(args.search_string))) =>
    result.value.legacy
      = Returned(SelectSeq(RankedOwners, LAMBDA pk : pk \in args.queryset))

\* parse_terms was called on a search string and has returned.
Parsed == args.fn = "parse_terms" /\ result # NoResult

\* {None: ["test"], "field": ["test1"], "other_field": ["test2"]}
LabelledTerms ==
  (None :> <<<<"t", "e", "s", "t">>>>)
    @@ (<<"f", "i", "e", "l", "d">> :> <<<<"t", "e", "s", "t", "1">>>>)
    @@ (<<"o", "t", "h", "e", "r", "_", "f", "i", "e", "l", "d">>
          :> <<<<"t", "e", "s", "t", "2">>>>)

\* C18: parse_terms files a token field:rest under the label field and a
\* token without a colon under None: 'test field:test1, other_field:test2'
\* gives {None: ["test"], "field": ["test1"], "other_field": ["test2"]}, and
\* the tokens b:x and xb:"b x" give terms under the labels b and xb.
C18_LabelledTokensScoped ==
  Parsed =>
    /\ args.search_string = LabelledQuery => result.value = LabelledTerms
    /\ \A k \in 1..Len(args.pieces) :
          /\ args.pieces[k] = <<"b", ":", "x">>
                => (<<"b">> \in DOMAIN result.value
                    /\ <<"x">> \in SeqToSet(result.value[<<"b">>]))
          /\ args.pieces[k] = <<"x", "b", ":", "\"", "b", " ", "x", "\"">>
                => (<<"x", "b">> \in DOMAIN result.value
                    /\ <<"b", " ", "x">> \in SeqToSet(result.value[<<"x", "b">>]))

\* C19: no two live IndexRecords have the same term, field and owner, also
\* while the units of one triple run side by side.
C19_OneRecordPerTriple ==
  \A a, b \in index :
    (a.iexact = b.iexact /\ a.field = b.field /\ a.owner = b.owner) => a = b

\* Every text of the fields of the call is None or has no canonical token.
NoExtraction(unit) ==
  \A k \in 1..Len(unit.fields) :
    LET texts == get_field_data(unit.fields[k], unit.obj)
    IN \A n \in 1..Len(texts) :
         texts[n] = None \/ canonicalize(texts[n], TRUE, TRUE) = <<>>

\* The IndexRecords of an owner in a view of the store.
OwnedIn(rows, pk) == {row \in rows : row.owner = pk}

\* C20: unindex of an object that owns no IndexRecord changes nothing; index
\* of an object whose indexed fields are None or have no tokens changes
\* nothing when the object owns no IndexRecord, and otherwise leaves the
\* object without IndexRecords and the records of the other objects as
\* they were.
C20_NoDataNoChange ==
  LET obj == lastCall.obj
      owned == OwnedIn(prev.db.index, obj.pk)
  IN /\ (lastCall.kind = "unindex" /\ owned = {}) => View(Store) = prev.db
     /\ (lastCall.kind = "reindex" /\ NoExtraction(lastCall)) =>
          /\ owned = {} => View(Store) = prev.db
          /\ Rows(index) = prev.db.index \ owned

\* C20 as stated: index of an object whose indexed fields are None or have
\* no tokens leaves every IndexRecord and every counter unchanged.
C20_IndexWithoutDataChangesNothing ==
  (lastCall.kind = "reindex" /\ NoExtraction(lastCall)) => View(Store) = prev.db

\* An object that owned nothing was indexed on a field of stopwords while
\* the store held the records of another object, and the store is as before.
C20_StopwordFieldIndexed ==
  /\ lastCall.kind = "reindex" /\ NoExtraction(lastCall)
  /\ \E k \in 1..Len(lastCall.fields) :
       lastCall.obj.data[lastCall.fields[k]].kind = "str"
  /\ OwnedIn(prev.db.index, lastCall.obj.pk) = {}
  /\ index # {}
  /\ View(Store) = prev.db

\* C21: with conflicts that stop, a call that met write conflicts ends, and
\* when it has ended the IndexRecords and the counters are those the call
\* leaves without any conflict: every record and every counter change was
\* applied once.
C21_RetriedUntilApplied ==
  /\ [](Idle(1) => View(Store) = prev.db)
  /\ (~Idle(1)) ~> Idle(1)

\* A reindex of an indexed object met as many conflicts as the store
\* raises, has ended and left what it leaves without conflicts.
C21_ReindexAfterConflicts ==
  /\ Idle(1) /\ prev.call.kind = "reindex"
  /\ env.conflicts = MaxConflicts
  /\ index # {}
  /\ View(Store) = prev.db


\* C28: once the environment has cancelled the call, a write conflict ends
\* the retry loop: no further attempt is started.
C28_CancelledLoopStops ==
  [][(env.cancelled /\ env'.conflicts > env.conflicts) => Idle(1)']_vars

\* C22: after index(obj, fields) on an empty store every IndexRecord of the
\* object holds the substring count of its term in a text of its field, and
\* every term's counter was incremented by that value once: it holds the sum
\* of the occurances of the term's records.
C22_EachDistinctTermOnce ==
  (calls = 1 /\ lastCall.kind = "reindex") =>
    \A row \in index :
      LET texts == get_field_data(row.field, lastCall.obj)
      IN /\ \E i \in DOMAIN texts :
              row.occurances = term_count(texts[i], row.iexact)
         /\ GocCount(row.iexact) = SumOccurances(index, row.iexact)

\* C23: the matches of a search made with no indexing in progress are
\* grouped by owner: no two entries of the ranked result belong to one owner.
C23_OwnerRankedOnce ==
  (Searched /\ Quiescent) =>
    \A i, j \in DOMAIN result.value.order :
      result.value.order[i].owner = result.value.order[j].owner => i = j

\* Without a recompute the counters of the one indexing caller are the sums
\* of the occurances whenever no call is in progress.
ConsistentWithoutRecompute == (Quiescent /\ lastCall = NoUnit) => Consistent

\* C24: once a recompute of a term and every call that overlapped it have
\* ended, the counter of the term holds the sum of the occurances of the
\* term's live IndexRecords.
C24_RecomputedCountIsSum ==
  (Quiescent /\ lastCall.kind = "update") =>
    GocCount(lastCall.term) = SumOccurances(index, lastCall.term)

\* C25: of two candidates with the same score the one _get_matches met first
\* (the candidates are numbered in the order they were met) comes first in
\* the ranking.
C25_TiesKeepEncounterOrder ==
  Ranked =>
    \A a, b \in DOMAIN args.obj_weights :
      (/\ a < b
       /\ ~ScoreLess(Score(args.obj_weights[a]), Score(args.obj_weights[b]))
       /\ ~ScoreLess(Score(args.obj_weights[b]), Score(args.obj_weights[a])))
        => Place(result.value, a) < Place(result.value, b)

\* _get_model_data was called and has ended.
Extracted == args.fn = "get_model_data" /\ result # NoResult

\* The values of a path by the position of what is met on it: None before
\* the end of the path gives no values, a related collection is expanded at
\* the second-to-last segment, an iterable is returned at the last, and
\* either one at another position is the configuration error.
RECURSIVE ValuesByPosition(_, _, _)
ValuesByPosition(lookups, value, i) ==
  LET n == Len(lookups)
  IN IF i > n THEN Returned(<<value>>)
     ELSE IF value.kind = "none" THEN Returned(<<>>)
     ELSE IF value.kind # "obj" THEN Raised("AttributeError")
     ELSE LET v == value.val[lookups[i]]
          IN IF v.kind = "manager"
             THEN IF i = n - 1
                  THEN Returned([k \in 1..Len(v.val) |-> v.val[k].val[lookups[n]]])
                  ELSE Raised("TypeError")
             ELSE IF v.kind = "iter"
                  THEN IF i = n THEN Returned(v.val) ELSE Raised("TypeError")
                  ELSE ValuesByPosition(lookups, v, i + 1)

\* C26: _get_model_data returns no values when it meets None before the end
\* of the path, expands a related collection only at the second-to-last
\* segment, returns an iterable only at the last segment, and raises the
\* configuration error (TypeError) for either at any other position.
C26_ExtractionByPosition ==
  Extracted => result.value = ValuesByPosition(Split(args.field), args.obj, 1)

\* canonicalize was called and has returned.
Canonicalized == args.fn = "canonicalize" /\ result # NoResult

\* C27: no token that canonicalize returns begins with an underscore.
C27_NoLeadingUnderscore ==
  Canonicalized =>
    \A k \in DOMAIN result.value :
      result.value[k] = <<>> \/ result.value[k][1] # "_"

\* C29: between the calls of one sequential caller every live IndexRecord's
\* term has a counter, the count is at least the record's occurances and at
\* least 1, and after unindex(r) no IndexRecord is owned by r.
C29_RecordsHaveCounters ==
  /\ \A row \in index :
       /\ row.iexact \in DOMAIN goc
       /\ goc[row.iexact] >= row.occurances
       /\ goc[row.iexact] >= 1
  /\ lastCall.kind = "unindex" =>
       \A row \in index : row.owner # lastCall.obj.pk

\* unindex(r) removed the IndexRecords of r, and the IndexRecords of another
\* object stay, one of them with a term that r had too.
C29_UnindexedAmongOthers ==
  /\ lastCall.kind = "unindex"
  /\ \A row \in index : row.owner # lastCall.obj.pk
  /\ \E gone \in prev.db.index, row \in index :
       /\ gone.owner = lastCall.obj.pk
       /\ gone.iexact = row.iexact
       /\ goc[row.iexact] >= row.occurances

\* The terms, fields and occurances of the IndexRecords of the object r.
OwnedRows(idx, r) ==
  {[iexact |-> row.iexact, field |-> row.field, occurances |-> row.occurances] :
     row \in {x \in idx : x.owner = r}}

\* C30: index(r, F) was deferred, the content of r changed and index(r, F)
\* was deferred again; when every task has run, the IndexRecords of r are
\* those of the latest content.
C30_LatestContentWins ==
  (/\ Quiescent
   /\ lastCall.kind = "reindex" /\ prev.call.kind = "reindex"
   /\ prev.call.obj.pk = lastCall.obj.pk
   /\ prev.call.obj.data # lastCall.obj.data) =>
    OwnedRows(index, lastCall.obj.pk)
      = OwnedRows(RunReindex([index |-> {}, goc |-> NoGoc], lastCall.obj,
                             lastCall.fields).index,
                  lastCall.obj.pk)

\* The count of a term in the counters g; no counter reads as 0.
CountIn(g, term) == IF term \in DOMAIN g THEN g[term] ELSE 0

\* C31: unindex(r) by a sequential caller leaves the IndexRecords of the
\* other objects as they were, changes the counter only of terms of which r
\* owned an IndexRecord, and deletes no counter of a term that a live
\* IndexRecord still holds.
C31_UnindexTouchesOwnOnly ==
  lastCall.kind = "unindex" =>
    LET r == lastCall.obj.pk
        owned == {row.iexact : row \in {x \in prev.db.index : x.owner = r}}
    IN /\ {row \in Rows(index) : row.owner # r}
            = {row \in prev.db.index : row.owner # r}
       /\ \A term \in DOMAIN goc \cup DOMAIN prev.db.goc :
            (term \in DOMAIN goc) # (term \in DOMAIN prev.db.goc)
              \/ CountIn(goc, term) # CountIn(prev.db.goc, term)
              => term \in owned
       /\ \A row \in index : row.iexact \in DOMAIN goc

\* unindex(r) lowered the counter of a term that another object's
\* IndexRecord holds too; that record and the counter are still there.
C31_SharedTermUnindexed ==
  /\ lastCall.kind = "unindex"
  /\ \E gone \in prev.db.index, row \in index :
       /\ gone.owner = lastCall.obj.pk /\ row.owner # lastCall.obj.pk
       /\ gone.iexact = row.iexact
       /\ row.iexact \in DOMAIN goc
       /\ goc[row.iexact] < prev.db.goc[row.iexact]

====
